---- MODULE Spec2Model ----
(***************************************************************************)
(* UMA protocol responder of wdk-uma-poc: the MongoDB collections and      *)
(* their indexes (src/src/db/database.js), the payment-request store       *)
(* (PaymentService), the user registry (UserService / UserModel), the      *)
(* settlement catalog (config/chain-mapping.js) and the two-phase          *)
(* lookup / pay responder (UmaService).                                    *)
(***************************************************************************)
EXTENDS Integers, Sequences, FiniteSets, TLC

(***************************************************************************)
(* Bounds of the model.                                                    *)
(***************************************************************************)
\* number of user documents ever inserted
MaxUsers == 1
\* number of clock advances
MaxTicks == 1
\* payment documents explored when no unique index limits the collection
MaxPayments == 3
\* length of the chain mapping handed to buildSettlementOptions
MaxChains == 3
\* network requests the rate oracle issues
MaxRequests == 2
\* steps of TickMs the clock makes while rate calls are in flight
MaxClock == 2
\* number of domain documents ever inserted
MaxDomains == 2
\* users ever inserted while domains are removed with their records
MaxMembers == 2

(***************************************************************************)
(* Values the operations draw their inputs from.                           *)
(***************************************************************************)
Null == "null"
NoValue == "undefined"
\* null where an _id is expected; no document has this _id
NullId == 0
\* the result of a call that has not returned
Pending == [kind |-> "pending"]

CallIds == {"c1", "c2"}
Usernames == {"alice", "bob"}
DomainIds == {"d1", "d2"}
Nonces == {"n1", "n2"}
Addresses == {"0xA", "0xB"}
SparkKeys == {"dummy-spark-key"}
TickMs == 15000

(***************************************************************************)
(* Program state.                                                          *)
(***************************************************************************)
VARIABLES
  collections,       \* names of the collections that exist in the database
  indexes,           \* unique indexes in force, as "<collection>.<key>"
  users,             \* documents of the users collection
  chain_addresses,   \* documents of the chain_addresses collection
  audit_log,         \* documents of the audit_log collection
  payment_requests,  \* documents of the payment_requests collection
  now,               \* Date.now(), in milliseconds
  calls,             \* the asynchronous calls in flight, per call slot
  made,              \* nonces carried by pay calls that resolved their user
  instructions,      \* per nonce, the instructions produced so far
  input,             \* argument of a buildSettlementOptions evaluation
  output,            \* its result
  TEST_MODE,         \* process.env.TEST_MODE === 'true'
  cache,             \* MarketRates.cache: symbol -> ticker
  lastFetch,         \* MarketRates.lastFetch: symbol -> timestamp
  requests,          \* network requests issued so far
  written,           \* per cached symbol, when and with which timestamp
                     \* its quote was stored, and by which operation
  domains,           \* documents of the domains collection
  reply,             \* what the last finished registry operation returned
                     \* or threw
  belonged           \* per domain whose deleteDomain succeeded, the ids of
                     \* the users it had at that moment

vars == <<collections, indexes, users, chain_addresses, audit_log,
          payment_requests, now, calls, made, instructions, input, output,
          TEST_MODE, cache, lastFetch, requests, written, domains, reply,
          belonged>>

dbVars == <<collections, indexes>>
domainVars == <<domains, reply, belonged>>
registryVars == <<users, chain_addresses, audit_log, domainVars>>
pureVars == <<input, output>>
rateVars == <<TEST_MODE, cache, lastFetch, requests, written>>

(***************************************************************************)
(* config/chain-mapping.js                                                 *)
(***************************************************************************)
chainMapping ==
  [spark    |-> [layer |-> "spark",    asset |-> "BTC",  chainId |-> 0],
   lightning |-> [layer |-> "ln",      asset |-> "BTC",  chainId |-> 0],
   ethereum |-> [layer |-> "ethereum", asset |-> "USDT", chainId |-> 1],
   polygon  |-> [layer |-> "polygon",  asset |-> "USDT", chainId |-> 137],
   arbitrum |-> [layer |-> "arbitrum", asset |-> "USDT", chainId |-> 42161],
   optimism |-> [layer |-> "optimism", asset |-> "USDT", chainId |-> 10],
   base     |-> [layer |-> "base",     asset |-> "USDT", chainId |-> 8453],
   solana   |-> [layer |-> "solana",   asset |-> "USDT", chainId |-> 0],
   plasma   |-> [layer |-> "plasma",   asset |-> "USDT", chainId |-> 0]]

\* the value of an absent key of the mapping
NoEntry == [layer |-> NoValue, asset |-> NoValue, chainId |-> 0]

\* CHAIN_MAPPING[chainKey]
CatalogEntry(chainKey) ==
  IF chainKey \in DOMAIN chainMapping THEN chainMapping[chainKey] ELSE NoEntry

\* a lookup that forgets to test the entry
Resolves_NoCheck(chainKey) == TRUE

\* CHAIN_MAPPING[chainKey] is defined
Resolves(chainKey) == chainKey \in DOMAIN chainMapping

(***************************************************************************)
(* Database: collections and unique indexes (src/src/db/database.js).      *)
(***************************************************************************)
AllCollections ==
  {"domains", "users", "chain_addresses", "payment_requests", "audit_log"}

\* the nonce index created without the unique option
UniqueIndexesOf_NonceNotUnique(col) ==
  CASE col = "domains" -> {"domains.domain"}
    [] col = "users" -> {"users.username_domain_id"}
    [] col = "chain_addresses" -> {"chain_addresses.user_id_chain_name"}
    [] OTHER -> {}

\* the unique indexes initializeDatabase creates together with a collection
UniqueIndexesOf(col) ==
  CASE col = "domains" -> {"domains.domain"}
    [] col = "users" -> {"users.username_domain_id"}
    [] col = "chain_addresses" -> {"chain_addresses.user_id_chain_name"}
    [] col = "payment_requests" -> {"payment_requests.nonce"}
    [] OTHER -> {}

\* collections created without any index
InitializedIndexes_NoIndexes(cols, idx) == idx

\* initializeDatabase: a collection that is missing is created with its
\* indexes, a collection that exists is left as it is
InitializedIndexes(cols, idx) ==
  idx \cup UNION {UniqueIndexesOf(col) : col \in AllCollections \ cols}

InitializeDatabase ==
  /\ indexes' = InitializedIndexes(collections, indexes)
  /\ collections' = AllCollections
  /\ UNCHANGED <<rateVars, registryVars, payment_requests, now, calls, made,
                 instructions, pureVars>>

\* Date.now() advances
Tick ==
  /\ now < MaxTicks * TickMs
  /\ now' = now + TickMs
  /\ UNCHANGED <<rateVars, dbVars, registryVars, payment_requests, calls, made,
                 instructions, pureVars>>

(***************************************************************************)
(* Payment-request store (PaymentService).                                 *)
(***************************************************************************)
Idle == [op |-> "idle"]

\* no registry operation has finished yet
NoReply == [op |-> "none", result |-> Pending]

\* the _id MongoDB gives the next inserted payment document
NextPaymentId == Cardinality(payment_requests) + 1

\* insertOne on payment_requests raises E11000 on the nonce key
NonceConflict(nonce) ==
  /\ "payment_requests.nonce" \in indexes
  /\ \E p \in payment_requests : p.nonce = nonce

PaymentDocument(id, c) ==
  [_id |-> id,
   user_id |-> c.userId,
   nonce |-> c.nonce,
   amount_msats |-> c.amountMsats,
   currency |-> c.currency,
   settlement_layer |-> c.settlementLayer,
   asset_identifier |-> c.assetIdentifier,
   invoice_or_address |-> c.invoiceOrAddress,
   status |-> "pending",
   expires_at |-> c.expiresAt]

\* a store that replaces the document of a nonce instead of rejecting
InsertPayment_Overwrite(c) ==
  {p \in payment_requests : p.nonce # c.nonce}
    \cup {PaymentDocument(NextPaymentId, c)}

\* the collection after db.collection('payment_requests').insertOne(doc)
InsertPayment(c) ==
  IF NonceConflict(c.nonce)
    THEN payment_requests
    ELSE payment_requests \cup {PaymentDocument(NextPaymentId, c)}

\* a catch block that does not turn E11000 into null
InsertResult_NeverNull(c) == NextPaymentId

\* what createPaymentRequest returns: the inserted id, or null on E11000
InsertResult(c) ==
  IF NonceConflict(c.nonce) THEN NullId ELSE NextPaymentId

ExpiresInSeconds == 3600

\* createPaymentRequest up to the insertOne request: the arguments are
\* bound and expiresAt is computed from Date.now()
CreatePaymentRequest(c, userId, nonce, amountMsats, currency, settlementLayer, assetIdentifier, invoiceOrAddress) ==
  /\ calls[c] = Idle
  /\ calls' = [calls EXCEPT ![c] =
       [op |-> "createPaymentRequest", pc |-> "insertOne",
        userId |-> userId, nonce |-> nonce, amountMsats |-> amountMsats,
        currency |-> currency, settlementLayer |-> settlementLayer,
        assetIdentifier |-> assetIdentifier,
        invoiceOrAddress |-> invoiceOrAddress,
        expiresAt |-> now + ExpiresInSeconds * 1000,
        result |-> NullId]]
  /\ UNCHANGED <<rateVars, dbVars, registryVars, payment_requests, now, made,
                 instructions, pureVars>>

\* the store executes the insertOne and createPaymentRequest returns
CreatePaymentInsert(c) ==
  /\ calls[c].op = "createPaymentRequest"
  /\ calls[c].pc = "insertOne"
  /\ Cardinality(payment_requests) < MaxPayments
  /\ payment_requests' = InsertPayment(calls[c])
  /\ collections' = collections \cup {"payment_requests"}
  /\ calls' = [calls EXCEPT ![c].pc = "done",
                            ![c].result = InsertResult(calls[c])]
  /\ UNCHANGED <<rateVars, indexes, registryVars, now, made, instructions, pureVars>>

\* updatePaymentStatus(paymentId, status)
UpdatePaymentStatus(paymentId, status) ==
  /\ \E p \in payment_requests : p._id = paymentId /\ p.status # status
  /\ payment_requests' =
       {IF p._id = paymentId THEN [p EXCEPT !.status = status] ELSE p :
          p \in payment_requests}
  /\ UNCHANGED <<rateVars, dbVars, registryVars, now, calls, made, instructions,
                 pureVars>>

\* the caller takes the result of a finished call
Return(c) ==
  /\ calls[c].op # "idle"
  /\ calls[c].pc = "done"
  /\ calls' = [calls EXCEPT ![c] = Idle]
  /\ UNCHANGED <<rateVars, dbVars, registryVars, payment_requests, now, made,
                 instructions, pureVars>>

(***************************************************************************)
(* User registry (UserService over UserModel).                             *)
(***************************************************************************)
\* String.prototype.toLowerCase on the strings of the model
ToLowerCase(s) ==
  CASE s = "Alice" -> "alice"
    [] s = "Polygon" -> "polygon"
    [] s = "Example.COM/" -> "example.com/"
    [] OTHER -> s

\* String.prototype.trim on the strings of the model
Trim(s) ==
  CASE s = " 0xA " -> "0xA"
    [] s = " " -> ""
    [] OTHER -> s

\* /^[a-z0-9_-]{1,64}$/ tested on username.toLowerCase()
isValidUsername(username) ==
  ToLowerCase(username) \in {"alice", "bob", "nonexistent-user"}

Range(seq) == {seq[i] : i \in 1..Len(seq)}

\* a filter without domain_id, as in findByUsername
findByUsernameAndDomain_AnyDomain(username, domainId) ==
  {u \in users : u.username = username /\ u.is_deleted # TRUE}

\* UserModel.findByUsernameAndDomain: the documents findOne may return
findByUsernameAndDomain(username, domainId) ==
  {u \in users : /\ u.username = username
                 /\ u.domain_id = domainId
                 /\ u.is_deleted # TRUE}

\* UserModel.findById
findById(userId) == {u \in users : u._id = userId /\ u.is_deleted # TRUE}

\* a filter on is_active: false
findAddresses_Inactive(userId) ==
  SelectSeq(chain_addresses,
            LAMBDA a : a.user_id = userId /\ a.is_active = FALSE)

\* UserModel.findAddresses: the active addresses of a user, in store order
findAddresses(userId) ==
  SelectSeq(chain_addresses,
            LAMBDA a : a.user_id = userId /\ a.is_active = TRUE)

\* the _id of the next inserted user: one never given before, also when
\* documents have been removed from the collection
NextUserId ==
  Cardinality({u._id : u \in users} \cup
              {e.target_id : e \in {a \in audit_log :
                                       a.action = "user_created"}}) + 1

\* the unique index on (username, domain_id) rejects the insert
UserConflict(username, domainId) ==
  /\ "users.username_domain_id" \in indexes
  /\ \E u \in users : u.username = username /\ u.domain_id = domainId

RECURSIVE AddressInserts(_, _)
\* the addressInserts array createUser builds from Object.entries(addresses)
AddressInserts(userId, entries) ==
  IF entries = <<>>
    THEN <<>>
    ELSE (IF Trim(Head(entries)[2]) # ""
            THEN <<[user_id |-> userId,
                    chain_name |-> ToLowerCase(Head(entries)[1]),
                    address |-> Trim(Head(entries)[2]),
                    is_active |-> TRUE]>>
            ELSE <<>>)
         \o AddressInserts(userId, Tail(entries))

AllResolve(entries) == \A i \in 1..Len(entries) : Resolves(entries[i][1])

AuditEntry(domainId, action, targetId) ==
  [domain_id |-> domainId, action |-> action, target_id |-> targetId]

\* createUser(options); addresses is NoValue or the sequence of
\* Object.entries(addresses)
createUser(username, domainId, sparkPublicKey, addresses) ==
  /\ isValidUsername(username)
  /\ findByUsernameAndDomain(username, domainId) = {}
  /\ ~UserConflict(ToLowerCase(username), domainId)
  /\ Cardinality(users) < MaxUsers
  /\ users' = users \cup
       {[_id |-> NextUserId,
         username |-> ToLowerCase(username),
         domain_id |-> domainId,
         spark_public_key |-> sparkPublicKey,
         is_active |-> TRUE,
         is_deleted |-> FALSE]}
  /\ collections' = collections \cup {"users"}
  /\ IF addresses = NoValue
       THEN /\ audit_log' = audit_log \cup
                 {AuditEntry(domainId, "user_created", NextUserId)}
            /\ UNCHANGED chain_addresses
       ELSE IF AllResolve(addresses)
         THEN /\ chain_addresses' =
                   chain_addresses \o AddressInserts(NextUserId, addresses)
              /\ audit_log' = audit_log \cup
                   {AuditEntry(domainId, "user_created", NextUserId)}
         ELSE \* 'Invalid chain' is thrown after the user was inserted
              UNCHANGED <<chain_addresses, audit_log>>
  /\ UNCHANGED <<rateVars, indexes, payment_requests, now, calls, made, instructions,
                 pureVars>>

\* deleteUser(userId): soft delete
deleteUser(userId) ==
  /\ findById(userId) # {}
  /\ users' = {IF u._id = userId THEN [u EXCEPT !.is_deleted = TRUE] ELSE u :
                 u \in users}
  /\ audit_log' = audit_log \cup
       {AuditEntry((CHOOSE u \in users : u._id = userId).domain_id,
                   "user_deleted", userId)}
  /\ UNCHANGED <<rateVars, dbVars, chain_addresses, payment_requests, now, calls, made,
                 instructions, pureVars>>

\* UserModel.upsertAddress
upsertAddress(userId, chainName, address) ==
  IF \E i \in 1..Len(chain_addresses) :
       /\ chain_addresses[i].user_id = userId
       /\ chain_addresses[i].chain_name = ToLowerCase(chainName)
    THEN [i \in 1..Len(chain_addresses) |->
           IF /\ chain_addresses[i].user_id = userId
              /\ chain_addresses[i].chain_name = ToLowerCase(chainName)
             THEN [chain_addresses[i] EXCEPT !.address = Trim(address),
                                             !.is_active = TRUE]
             ELSE chain_addresses[i]]
    ELSE Append(chain_addresses,
                [user_id |-> userId, chain_name |-> ToLowerCase(chainName),
                 address |-> Trim(address), is_active |-> TRUE])

\* addUserAddress(userId, chainName, address)
addUserAddress(userId, chainName, address) ==
  /\ chain_addresses' = upsertAddress(userId, chainName, address)
  /\ chain_addresses' # chain_addresses
  /\ collections' = collections \cup {"chain_addresses"}
  /\ UNCHANGED <<rateVars, indexes, users, audit_log, payment_requests, now, calls,
                 made, instructions, pureVars>>

\* removeUserAddress(userId, chainName), over UserModel.deleteAddress
removeUserAddress(userId, chainName) ==
  /\ chain_addresses' =
       SelectSeq(chain_addresses,
                 LAMBDA a : ~(/\ a.user_id = userId
                              /\ a.chain_name = ToLowerCase(chainName)))
  /\ chain_addresses' # chain_addresses
  /\ UNCHANGED <<rateVars, dbVars, users, audit_log, payment_requests, now, calls,
                 made, instructions, pureVars>>

(***************************************************************************)
(* UMA protocol responder (UmaService): pay phase.                         *)
(***************************************************************************)
Error(message) == [kind |-> "error", message |-> message]

DuplicateNonce == Error("DUPLICATE_NONCE")
UserNotFound == Error("User not found")
MissingSparkKey == Error("Lightning payments require a Spark public key")
InvoiceFailure == Error("Failed to generate Lightning invoice")
AddressNotFound(layer) ==
  [kind |-> "error", message |-> "Address not found for settlement layer",
   layer |-> layer]

\* a default that is not Lightning
ResolvedLayer_Spark(settlementLayer) ==
  IF settlementLayer = NoValue THEN "spark" ELSE settlementLayer

\* the layer a pay request settles on: Lightning when the caller named none
ResolvedLayer(settlementLayer) ==
  IF settlementLayer = NoValue THEN "ln" ELSE settlementLayer

IsLightning(layer) == layer = "ln"

\* a test for undefined only, which a stored null passes
HasSparkKey_UndefinedOnly(user) == user.spark_public_key # NoValue

\* the user has a public key that enables Lightning invoice issuance
HasSparkKey(user) == user.spark_public_key \notin {Null, NoValue, ""}

\* the echo of the settlement choice, present when the caller made one
SettlementEcho(c) ==
  IF c.settlementLayer = NoValue
    THEN [layer |-> NoValue, assetIdentifier |-> NoValue]
    ELSE [layer |-> c.settlementLayer,
          assetIdentifier |-> c.assetIdentifier]

PayResponse(c, pr, disposable) ==
  [kind |-> "ok", pr |-> pr, routes |-> <<>>, disposable |-> disposable,
   settlement |-> SettlementEcho(c)]

\* the first active address of the user, whatever its chain key
ActiveAddress_AnyChain(userId, layer) == findAddresses(userId)

\* the active address of a user on the chain key of a blockchain layer
ActiveAddress(userId, layer) ==
  SelectSeq(findAddresses(userId), LAMBDA a : a.chain_name = layer)

\* the invoice the external Lightning generator issues to a call
Invoice(c) == IF c = "c1" THEN "lnbc-c1" ELSE "lnbc-c2"

\* generatePayResponse, step 1: resolve the user; a user that is found
\* leads to the createPaymentRequest call of step 2
generatePayResponse(c, username, domainId, amountMsats, nonce, currency, settlementLayer, assetIdentifier) ==
  /\ calls[c] = Idle
  /\ LET found == findByUsernameAndDomain(username, domainId)
         call == [op |-> "generatePayResponse", pc |-> "insertOne",
                  username |-> username, domainId |-> domainId,
                  userId |-> NullId, nonce |-> nonce,
                  amountMsats |-> amountMsats, currency |-> currency,
                  settlementLayer |-> settlementLayer,
                  assetIdentifier |-> assetIdentifier,
                  invoiceOrAddress |-> Null,
                  expiresAt |-> now + ExpiresInSeconds * 1000,
                  prior |-> nonce \in made,
                  result |-> Pending]
     IN IF found = {}
          THEN calls' = [calls EXCEPT ![c] =
                 [call EXCEPT !.pc = "done", !.result = UserNotFound]]
          ELSE \E u \in found :
                 calls' = [calls EXCEPT ![c] = [call EXCEPT !.userId = u._id]]
  /\ UNCHANGED <<rateVars, dbVars, registryVars, payment_requests, now, made,
                 instructions, pureVars>>

\* step 2: the store executes the insert of the payment request; a nonce
\* conflict ends the call with DUPLICATE_NONCE
PayInsert(c) ==
  /\ calls[c].op = "generatePayResponse"
  /\ calls[c].pc = "insertOne"
  /\ Cardinality(payment_requests) < MaxPayments
  /\ payment_requests' = InsertPayment(calls[c])
  /\ collections' = collections \cup {"payment_requests"}
  /\ IF InsertResult(calls[c]) = NullId
       THEN /\ calls' = [calls EXCEPT ![c].pc = "done",
                                      ![c].result = DuplicateNonce]
            /\ made' = made \cup {calls[c].nonce}
       ELSE /\ calls' = [calls EXCEPT ![c].pc = "instruction"]
            /\ UNCHANGED made
  /\ UNCHANGED <<rateVars, indexes, registryVars, now, instructions, pureVars>>

\* step 3, Lightning: the user needs a Spark public key; the external
\* generator then issues an invoice or fails
PayLightning(c, generated) ==
  /\ calls[c].op = "generatePayResponse"
  /\ calls[c].pc = "instruction"
  /\ IsLightning(ResolvedLayer(calls[c].settlementLayer))
  /\ LET user == CHOOSE u \in users : u._id = calls[c].userId
     IN IF ~HasSparkKey(user)
          THEN /\ calls' = [calls EXCEPT ![c].pc = "done",
                                         ![c].result = MissingSparkKey]
               /\ UNCHANGED instructions
          ELSE /\ calls' = [calls EXCEPT
                    ![c].pc = "done",
                    ![c].result = IF generated
                                    THEN PayResponse(calls[c], Invoice(c), TRUE)
                                    ELSE InvoiceFailure]
               /\ instructions' =
                    [instructions EXCEPT ![calls[c].nonce] = @ + 1]
  /\ made' = made \cup {calls[c].nonce}
  /\ UNCHANGED <<rateVars, dbVars, registryVars, payment_requests, now, pureVars>>

\* step 3, blockchain layer: the user's active address for the chain key
PayAddress(c) ==
  /\ calls[c].op = "generatePayResponse"
  /\ calls[c].pc = "instruction"
  /\ ~IsLightning(ResolvedLayer(calls[c].settlementLayer))
  /\ LET layer == ResolvedLayer(calls[c].settlementLayer)
         found == ActiveAddress(calls[c].userId, layer)
     IN IF found = <<>>
          THEN /\ calls' = [calls EXCEPT ![c].pc = "done",
                                         ![c].result = AddressNotFound(layer)]
               /\ UNCHANGED instructions
          ELSE /\ calls' = [calls EXCEPT
                    ![c].pc = "done",
                    ![c].result = PayResponse(calls[c], found[1].address,
                                              FALSE)]
               /\ instructions' =
                    [instructions EXCEPT ![calls[c].nonce] = @ + 1]
  /\ made' = made \cup {calls[c].nonce}
  /\ UNCHANGED <<rateVars, dbVars, registryVars, payment_requests, now, pureVars>>

(***************************************************************************)
(* Multiplier calculator (MarketRates.calculateMultipliers) for a BTC      *)
(* price already obtained from the rate oracle.                            *)
(***************************************************************************)
TEST_MULTIPLIERS ==
  [USD |-> [USD |-> 10000], USDT |-> [USD |-> 10000], BTC |-> [USD |-> 10000]]

\* the number Infinity, written as the largest integer of the model: no
\* price and no finite multiplier of the model reaches it
Infinity == 2147483647

\* a quotient that is truncated instead of rounded
MsatsPerCent_Truncated(btcPriceUsd) ==
  IF btcPriceUsd = 0 THEN Infinity
  ELSE IF btcPriceUsd > 0 THEN 1000000000 \div btcPriceUsd
  ELSE 0 - (1000000000 \div (0 - btcPriceUsd))

\* Math.round(100000000000 / (btcPriceUsd * 100)) for a whole price: the
\* quotient 10^9 / price rounded to the nearest integer, halves towards
\* +Infinity; a zero price divides to Infinity, a negative price to a
\* negative number
MsatsPerCent(btcPriceUsd) ==
  IF btcPriceUsd = 0 THEN Infinity
  ELSE IF btcPriceUsd > 0
    THEN (1000000000 \div btcPriceUsd)
         + (IF 2 * (1000000000 % btcPriceUsd) >= btcPriceUsd THEN 1 ELSE 0)
    ELSE ((0 - btcPriceUsd) - 2 * 1000000000) \div (2 * (0 - btcPriceUsd))

\* a calculator that prices USDT from the BTC quote as it prices BTC
calculateMultipliers_UsdtPriced(asset, currencies, testMode, btcPriceUsd) ==
  IF testMode
    THEN (IF asset \in DOMAIN TEST_MULTIPLIERS
            THEN TEST_MULTIPLIERS[asset]
            ELSE <<>>)
    ELSE [currency \in {cur \in Range(currencies) :
                          cur = "USD" /\ asset \in {"USDT", "BTC"}} |->
            MsatsPerCent(btcPriceUsd)]

calculateMultipliers(asset, currencies, testMode, btcPriceUsd) ==
  IF testMode
    THEN (IF asset \in DOMAIN TEST_MULTIPLIERS
            THEN TEST_MULTIPLIERS[asset]
            ELSE <<>>)
    ELSE [currency \in {cur \in Range(currencies) :
                          cur = "USD" /\ asset \in {"USDT", "BTC"}} |->
            IF asset = "USDT" THEN 10000 ELSE MsatsPerCent(btcPriceUsd)]

(***************************************************************************)
(* Rate oracle (MarketRates): quote cache, fetches, batch fetch.           *)
(***************************************************************************)
CACHE_TTL_MS == 30000

TEST_PRICES == [tBTCUSD |-> 100000, tETHUSD |-> 3500]

\* the ticker built from a Bitfinex array; lastPrice stands for the ten
\* fields, which are copied alike
Ticker(price) == [lastPrice |-> price]

\* Map.prototype.set
MapSet(map, key, value) ==
  [k \in DOMAIN map \cup {key} |-> IF k = key THEN value ELSE map[k]]

\* this.cache.set(cacheKey, ticker)
CacheSet(symbol, ticker) == MapSet(cache, symbol, ticker)

\* a timestamp that is not written
LastFetchSet_Skipped(symbol, timestamp) == lastFetch

\* this.lastFetch.set(cacheKey, now)
LastFetchSet(symbol, timestamp) == MapSet(lastFetch, symbol, timestamp)

\* this.lastFetch.get(cacheKey) || 0
LastFetchOf(symbol) ==
  IF symbol \in DOMAIN lastFetch THEN lastFetch[symbol] ELSE 0

\* the cache check of getTicker for a call that read Date.now() as time
CacheHit(symbol, time) ==
  /\ symbol \in DOMAIN cache
  /\ time - LastFetchOf(symbol) < CACHE_TTL_MS

\* what the operation on top of getTicker makes of the ticker it awaited
Finish(call, ticker) ==
  CASE call.op = "getTicker" -> [kind |-> "ticker", ticker |-> ticker]
    [] call.op \in {"getBtcUsdPrice", "getEthUsdPrice"} ->
         [kind |-> "price", price |-> ticker.lastPrice]
    [] call.op = "calculateMultipliers" ->
         [kind |-> "multipliers",
          multipliers |-> calculateMultipliers(call.asset, call.currencies,
                                               FALSE, ticker.lastPrice)]

\* getTicker up to its first await, for the operation described by call
GetTickerBegin(c, call) ==
  /\ calls[c] = Idle
  /\ IF TEST_MODE
       THEN /\ calls' = [calls EXCEPT ![c] =
                 [call EXCEPT !.pc = "done", !.result =
                    IF call.symbol \in DOMAIN TEST_PRICES
                      THEN Finish(call, Ticker(TEST_PRICES[call.symbol]))
                      ELSE Error("No test price configured for symbol")]]
            /\ UNCHANGED requests
       ELSE IF CacheHit(call.symbol, now)
         THEN /\ calls' = [calls EXCEPT ![c] =
                   [call EXCEPT !.pc = "done",
                                !.result = Finish(call, cache[call.symbol])]]
              /\ UNCHANGED requests
         ELSE /\ requests < MaxRequests
              /\ calls' = [calls EXCEPT ![c] = [call EXCEPT !.pc = "fetch"]]
              /\ requests' = requests + 1
  /\ UNCHANGED <<dbVars, registryVars, payment_requests, now, made,
                 instructions, pureVars, TEST_MODE, cache, lastFetch, written>>

RateCall(op, symbol, asset, currencies) ==
  [op |-> op, pc |-> "begin", symbol |-> symbol, asset |-> asset,
   currencies |-> currencies, now |-> now, fetched |-> "no",
   result |-> Pending]

getTicker(c, symbol) ==
  GetTickerBegin(c, RateCall("getTicker", symbol, NoValue, <<>>))

getBtcUsdPrice(c) ==
  GetTickerBegin(c, RateCall("getBtcUsdPrice", "tBTCUSD", NoValue, <<>>))

getEthUsdPrice(c) ==
  GetTickerBegin(c, RateCall("getEthUsdPrice", "tETHUSD", NoValue, <<>>))

\* the asynchronous calculateMultipliers: only a BTC multiplier for USD
\* outside test mode awaits a price
CalculateMultipliers(c, asset, currencies) ==
  IF ~TEST_MODE /\ asset = "BTC" /\ "USD" \in Range(currencies)
    THEN GetTickerBegin(c, RateCall("calculateMultipliers", "tBTCUSD",
                                    asset, currencies))
    ELSE /\ calls[c] = Idle
         /\ calls' = [calls EXCEPT ![c] =
              [RateCall("calculateMultipliers", NoValue, asset, currencies)
                 EXCEPT !.pc = "done", !.result =
                   [kind |-> "multipliers", multipliers |->
                      calculateMultipliers(asset, currencies, TEST_MODE, 0)]]]
         /\ UNCHANGED <<dbVars, registryVars, payment_requests, now, made,
                        instructions, pureVars, rateVars>>

\* the fetch of getTicker answers with a well-formed array
FetchSucceeds(c, price) ==
  /\ calls[c].op \in {"getTicker", "getBtcUsdPrice", "getEthUsdPrice",
                      "calculateMultipliers"}
  /\ calls[c].pc = "fetch"
  /\ LET call == calls[c]
         ticker == Ticker(price)
     IN /\ cache' = CacheSet(call.symbol, ticker)
        /\ lastFetch' = LastFetchSet(call.symbol, call.now)
        /\ written' = MapSet(written, call.symbol,
                             [at |-> now, stamp |-> call.now,
                              by |-> "getTicker"])
        /\ calls' = [calls EXCEPT ![c] =
             [call EXCEPT !.pc = "done", !.fetched = "ok",
                          !.result = Finish(call, ticker)]]
  /\ UNCHANGED <<dbVars, registryVars, payment_requests, now, made,
                 instructions, pureVars, TEST_MODE, requests>>

FetchError == Error("Bitfinex API error")

\* a catch block that rethrows without looking at the cache
StaleOrThrow_Rethrows(call) == FetchError

\* a catch block that falls back to the fixed table when the cache is empty
StaleOrThrow_TableFallback(call) ==
  IF call.symbol \in DOMAIN cache
    THEN Finish(call, cache[call.symbol])
    ELSE Finish(call, Ticker(TEST_PRICES[call.symbol]))

\* the catch block of getTicker: the cached quote, however old, or the error
StaleOrThrow(call) ==
  IF call.symbol \in DOMAIN cache
    THEN Finish(call, cache[call.symbol])
    ELSE FetchError

\* a catch block that stamps the symbol again when it serves its quote
LastFetchAfterFailure_Refreshed(call) ==
  IF call.symbol \in DOMAIN cache
    THEN MapSet(lastFetch, call.symbol, now)
    ELSE lastFetch

\* the catch block of getTicker writes no timestamp
LastFetchAfterFailure(call) == lastFetch

\* the fetch of getTicker rejects, answers with an error status or with a
\* body that is not JSON
FetchFails(c) ==
  /\ calls[c].op \in {"getTicker", "getBtcUsdPrice", "getEthUsdPrice",
                      "calculateMultipliers"}
  /\ calls[c].pc = "fetch"
  /\ LET call == calls[c]
     IN /\ calls' = [calls EXCEPT ![c] =
             [call EXCEPT !.pc = "done", !.fetched = "failed",
                          !.result = StaleOrThrow(call)]]
        /\ lastFetch' = LastFetchAfterFailure(call)
  /\ UNCHANGED <<dbVars, registryVars, payment_requests, now, made,
                 instructions, pureVars, TEST_MODE, cache, requests,
                 written>>

\* getTickers up to its await: it does not look at the test-mode flag
getTickers(c, symbols) ==
  /\ calls[c] = Idle
  /\ requests < MaxRequests
  /\ requests' = requests + 1
  /\ calls' = [calls EXCEPT ![c] =
       [op |-> "getTickers", pc |-> "fetch", symbols |-> symbols,
        fetched |-> "no", response |-> <<>>, result |-> Pending]]
  /\ UNCHANGED <<dbVars, registryVars, payment_requests, now, made,
                 instructions, pureVars, TEST_MODE, cache, lastFetch, written>>

\* an element of the response that is an array [SYMBOL, ..., LAST_PRICE, ...]
Item(symbol, price) == [array |-> TRUE, symbol |-> symbol, lastPrice |-> price]

\* an element of the response that is null instead of an array
NullItem == [array |-> FALSE, symbol |-> NoValue, lastPrice |-> 0]

\* the for loop of getTickers over the response: item[0] of an element that
\* is not an array throws and ends the loop, the elements before it stay
\* stored
RECURSIVE BatchLoop(_, _)
BatchLoop(data, acc) ==
  IF data = <<>> THEN acc
  ELSE IF ~Head(data).array THEN [acc EXCEPT !.thrown = TRUE]
  ELSE LET item == Head(data)
           ticker == Ticker(item.lastPrice)
       IN BatchLoop(Tail(data),
            [cache |-> MapSet(acc.cache, item.symbol, ticker),
             lastFetch |-> MapSet(acc.lastFetch, item.symbol, now),
             written |-> MapSet(acc.written, item.symbol,
                                [at |-> now, stamp |-> now,
                                 by |-> "getTickers"]),
             tickers |-> MapSet(acc.tickers, item.symbol, ticker),
             thrown |-> FALSE])

TypeError == Error("Cannot read properties of null")

\* the batch fetch answers with the array data
GetTickersSucceeds(c, data) ==
  /\ calls[c].op = "getTickers"
  /\ calls[c].pc = "fetch"
  /\ LET end == BatchLoop(data, [cache |-> cache, lastFetch |-> lastFetch,
                                 written |-> written, tickers |-> <<>>,
                                 thrown |-> FALSE])
     IN /\ cache' = end.cache
        /\ lastFetch' = end.lastFetch
        /\ written' = end.written
        /\ calls' = [calls EXCEPT ![c] =
             [@ EXCEPT !.pc = "done", !.fetched = "ok", !.response = data,
                       !.result =
                IF end.thrown THEN TypeError
                ELSE [kind |-> "tickers", tickers |-> end.tickers]]]
  /\ UNCHANGED <<dbVars, registryVars, payment_requests, now, made,
                 instructions, pureVars, TEST_MODE, requests>>

\* the batch fetch rejects or answers with an error status
GetTickersFails(c) ==
  /\ calls[c].op = "getTickers"
  /\ calls[c].pc = "fetch"
  /\ calls' = [calls EXCEPT ![c] =
       [@ EXCEPT !.pc = "done", !.fetched = "failed", !.result = FetchError]]
  /\ UNCHANGED <<dbVars, registryVars, payment_requests, now, made,
                 instructions, pureVars, rateVars>>

clearCache ==
  /\ cache' = <<>>
  /\ lastFetch' = <<>>
  /\ written' = <<>>
  /\ UNCHANGED <<dbVars, registryVars, payment_requests, now, calls, made,
                 instructions, pureVars, TEST_MODE, requests>>

\* Date.now() advances while rate calls are in flight
RateTick ==
  /\ now < MaxClock * TickMs
  /\ now' = now + TickMs
  /\ UNCHANGED <<dbVars, registryVars, payment_requests, calls, made,
                 instructions, pureVars, rateVars>>

(***************************************************************************)
(* UMA protocol responder (UmaService): lookup phase.                      *)
(***************************************************************************)
\* the asset identifier a settlement option advertises
AssetIdentifier(entry) ==
  CASE entry.layer = "ln" -> "BTC_LN"
    [] entry.layer = "spark" -> "BTC_SPARK"
    [] entry.layer = "ethereum" -> "USDT_ETHEREUM"
    [] entry.layer = "polygon" -> "USDT_POLYGON"
    [] entry.layer = "arbitrum" -> "USDT_ARBITRUM"
    [] entry.layer = "optimism" -> "USDT_OPTIMISM"
    [] entry.layer = "base" -> "USDT_BASE"
    [] entry.layer = "solana" -> "USDT_SOLANA"
    [] OTHER -> "USDT_PLASMA"

RECURSIVE buildSettlementOptions(_, _, _, _)
\* one option per chain key that resolves in the chain mapping, in the
\* order of the keys; chains is the sequence of Object.entries(chains)
buildSettlementOptions(chains, currencies, testMode, btcPriceUsd) ==
  IF chains = <<>>
    THEN <<>>
    ELSE (IF Resolves(Head(chains)[1])
            THEN LET entry == CatalogEntry(Head(chains)[1])
                 IN <<[settlementLayer |-> entry.layer,
                       assets |->
                         <<[identifier |-> AssetIdentifier(entry),
                            multipliers |->
                              calculateMultipliers(entry.asset, currencies,
                                                   testMode, btcPriceUsd)]>>]>>
            ELSE <<>>)
         \o buildSettlementOptions(Tail(chains), currencies, testMode,
                                   btcPriceUsd)

NullResponse == [kind |-> "null"]

\* the chains mapping of a user: chain key -> {address}, in store order
ChainsOf(userId) ==
  LET found == findAddresses(userId)
  IN [i \in 1..Len(found) |-> <<found[i].chain_name, found[i].address>>]

\* generateLookupResponse, step 1: resolve the user; not found is null
generateLookupResponse(c, username, domainId) ==
  /\ calls[c] = Idle
  /\ LET found == findByUsernameAndDomain(username, domainId)
         call == [op |-> "generateLookupResponse", pc |-> "addresses",
                  username |-> username, domainId |-> domainId,
                  userId |-> NullId, result |-> Pending]
     IN IF found = {}
          THEN calls' = [calls EXCEPT ![c] =
                 [call EXCEPT !.pc = "done", !.result = NullResponse]]
          ELSE \E u \in found :
                 calls' = [calls EXCEPT ![c] = [call EXCEPT !.userId = u._id]]
  /\ UNCHANGED <<rateVars, dbVars, registryVars, payment_requests, now, made,
                 instructions, pureVars>>

\* steps 2 to 5: load the active addresses, build the settlement options
\* and assemble the response
LookupRespond(c, testMode, btcPriceUsd) ==
  /\ calls[c].op = "generateLookupResponse"
  /\ calls[c].pc = "addresses"
  /\ calls' = [calls EXCEPT
       ![c].pc = "done",
       ![c].result =
         [kind |-> "ok",
          callback |-> [path |-> "/.well-known/lnurlp",
                        username |-> calls[c].username],
          minSendable |-> 1000,
          maxSendable |-> 100000000,
          umaVersion |-> "1.0",
          settlementOptions |->
            buildSettlementOptions(ChainsOf(calls[c].userId), <<"USD">>,
                                   testMode, btcPriceUsd)]]
  /\ UNCHANGED <<rateVars, dbVars, registryVars, payment_requests, now, made,
                 instructions, pureVars>>

\* umaService.buildSettlementOptions(chains, currencies) called directly
BuildSettlementOptions ==
  /\ input # Pending
  /\ output = Pending
  /\ output' = [kind |-> "ok",
                options |-> buildSettlementOptions(input.chains,
                                                   input.currencies,
                                                   input.testMode,
                                                   input.btcPriceUsd)]
  /\ UNCHANGED <<rateVars, dbVars, registryVars, payment_requests, now, calls, made,
                 instructions, input>>

(***************************************************************************)
(* Domain registry (DomainService over DomainModel).                       *)
(***************************************************************************)
VALID_DOMAIN_CURRENCIES ==
  {"BTC", "USDT_POLYGON", "USDT_SOLANA", "USDT_TRON", "USDT_ETH", "USD"}

\* CURRENCIES.BTC.defaultLimits
defaultLimits == [minSendable |-> 1000, maxSendable |-> 100000000]

\* the number NaN, written as an integer that no limit of the model takes
NaN == 0 - 2147483647

\* a < b and a > b on numbers: false as soon as one side is NaN
Less(a, b) == a # NaN /\ b # NaN /\ a < b
Greater(a, b) == a # NaN /\ b # NaN /\ a > b

\* .replace(/\/+$/, '') on the strings of the model
StripSlashes(s) ==
  CASE s = "example.com/" -> "example.com"
    [] s = "/" -> ""
    [] OTHER -> s

\* .replace(/^www\./i, '') on the strings of the model
StripWww(s) ==
  CASE s = "www.example.com" -> "example.com"
    [] OTHER -> s

\* the name createDomain stores
NormalizeCreated(domain) == StripWww(StripSlashes(ToLowerCase(domain)))

\* the name getDomainByName looks up
NormalizeLookup(domain) == StripSlashes(ToLowerCase(domain))

\* DomainModel.findById, deleted documents excluded
findDomainById(id) == {d \in domains : d._id = id /\ d.is_deleted # TRUE}

\* a lookup that also returns deleted documents
findByName_IncludeDeleted(name) == {d \in domains : d.domain = name}

\* DomainModel.findByName, deleted documents excluded
findByName(name) == {d \in domains : d.domain = name /\ d.is_deleted # TRUE}

\* DomainService.getDomainByName
getDomainByName(domain) == findByName(NormalizeLookup(domain))

\* a collection without the unique index
DomainConflict_None(name) == FALSE

\* the unique index on domain refuses a second document of the name,
\* deleted or not
DomainConflict(name) ==
  /\ "domains.domain" \in indexes
  /\ \E d \in domains : d.domain = name

DomainIdOf(n) ==
  CASE n = 1 -> "d1" [] n = 2 -> "d2" [] n = 3 -> "d3" [] OTHER -> "d4"

NextDomainId == DomainIdOf(Cardinality(domains) + 1)

\* the document createDomain inserts
DomainDocument(name) ==
  [_id |-> NextDomainId,
   domain |-> name,
   display_name |-> name,
   is_active |-> TRUE,
   is_default |-> FALSE,
   is_deleted |-> FALSE,
   currency_settings |->
     [code \in VALID_DOMAIN_CURRENCIES |->
        [active |-> TRUE,
         minSendable |-> defaultLimits.minSendable,
         maxSendable |-> defaultLimits.maxSendable]]]

\* what a finished operation leaves in reply: the operation, the name
\* (domain name, username or currency code), domain id and user id it was
\* called with, and what it returned or threw
Reply(op, name, id, userId, result) ==
  [op |-> op, name |-> name, id |-> id, userId |-> userId, result |-> result]

Ok(value) == [kind |-> "ok", value |-> value]

\* what findOne gives for the documents that match
FindOne(found) ==
  IF found = {} THEN [kind |-> "null"] ELSE Ok(CHOOSE d \in found : TRUE)

DuplicateKey == Error("E11000 duplicate key error")

\* createDomain(options): normalisation and the lookup of an existing domain
createDomain(c, domain) ==
  /\ calls[c] = Idle
  /\ LET normalizedDomain == NormalizeCreated(domain)
     IN IF normalizedDomain = ""
          THEN /\ reply' = Reply("createDomain", domain, NoValue, NullId,
                                 Error("Domain is required"))
               /\ UNCHANGED calls
          ELSE IF getDomainByName(normalizedDomain) # {}
            THEN /\ reply' = Reply("createDomain", domain, NoValue, NullId,
                                   Error("Domain already exists"))
                 /\ UNCHANGED calls
            ELSE /\ calls' = [calls EXCEPT ![c] =
                      [op |-> "createDomain", pc |-> "insert",
                       domain |-> domain, name |-> normalizedDomain,
                       id |-> NoValue]]
                 /\ UNCHANGED reply
  /\ UNCHANGED <<rateVars, dbVars, users, chain_addresses, audit_log,
                 payment_requests, now, made, instructions, pureVars,
                 domains, belonged>>

\* createDomain: model.insert
DomainInsert(c) ==
  /\ calls[c] # Idle
  /\ calls[c].op = "createDomain"
  /\ calls[c].pc = "insert"
  /\ IF DomainConflict(calls[c].name)
       THEN /\ reply' = Reply("createDomain", calls[c].domain, NoValue,
                              NullId, DuplicateKey)
            /\ calls' = [calls EXCEPT ![c] = Idle]
            /\ UNCHANGED <<domains, collections>>
       ELSE /\ Cardinality(domains) < MaxDomains
            /\ domains' = domains \cup {DomainDocument(calls[c].name)}
            /\ collections' = collections \cup {"domains"}
            /\ calls' = [calls EXCEPT ![c] =
                 [calls[c] EXCEPT !.pc = "read", !.id = NextDomainId]]
            /\ UNCHANGED reply
  /\ UNCHANGED <<rateVars, indexes, users, chain_addresses, audit_log,
                 payment_requests, now, made, instructions, pureVars,
                 belonged>>

\* createDomain: the created domain is read back and returned
DomainCreated(c) ==
  /\ calls[c] # Idle
  /\ calls[c].op = "createDomain"
  /\ calls[c].pc = "read"
  /\ reply' = Reply("createDomain", calls[c].domain, calls[c].id, NullId,
                    Ok(FindOne(findDomainById(calls[c].id))))
  /\ calls' = [calls EXCEPT ![c] = Idle]
  /\ UNCHANGED <<rateVars, dbVars, users, chain_addresses, audit_log,
                 payment_requests, now, made, instructions, pureVars,
                 domains, belonged>>

\* updateDomain(id, {display_name}): model.update matches on _id alone and
\* always modifies the document it matches, since updated_at is set
updateDomain(c, id, displayName) ==
  /\ calls[c] = Idle
  /\ IF \E d \in domains : d._id = id
       THEN /\ domains' = {IF d._id = id
                             THEN [d EXCEPT !.display_name = displayName]
                             ELSE d : d \in domains}
            /\ calls' = [calls EXCEPT ![c] =
                 [op |-> "updateDomain", pc |-> "read", id |-> id]]
            /\ UNCHANGED reply
       ELSE /\ reply' = Reply("updateDomain", NoValue, id, NullId,
                              Error("Domain not found or no changes made"))
            /\ UNCHANGED <<domains, calls>>
  /\ UNCHANGED <<rateVars, dbVars, users, chain_addresses, audit_log,
                 payment_requests, now, made, instructions, pureVars,
                 belonged>>

\* updateDomain: the updated domain is read back and returned
DomainUpdated(c) ==
  /\ calls[c] # Idle
  /\ calls[c].op = "updateDomain"
  /\ reply' = Reply("updateDomain", NoValue, calls[c].id, NullId,
                    FindOne(findDomainById(calls[c].id)))
  /\ calls' = [calls EXCEPT ![c] = Idle]
  /\ UNCHANGED <<rateVars, dbVars, users, chain_addresses, audit_log,
                 payment_requests, now, made, instructions, pureVars,
                 domains, belonged>>

\* DomainModel.softDelete: the documents after the update
softDelete(id) ==
  {IF d._id = id THEN [d EXCEPT !.is_deleted = TRUE] ELSE d : d \in domains}

\* a cascade that deletes no user
softDeleteUsersByDomain_None(domainId) == users

\* DomainModel.softDeleteUsersByDomain: the users after the update
softDeleteUsersByDomain(domainId) ==
  {IF u.domain_id = domainId THEN [u EXCEPT !.is_deleted = TRUE] ELSE u :
     u \in users}

\* deleteDomain(id): model.softDelete and the test of modifiedCount
deleteDomain(c, id) ==
  /\ calls[c] = Idle
  /\ IF findDomainById(id) # {}
       THEN /\ domains' = softDelete(id)
            /\ calls' = [calls EXCEPT ![c] =
                 [op |-> "deleteDomain", pc |-> "users", id |-> id]]
            /\ UNCHANGED reply
       ELSE /\ reply' = Reply("deleteDomain", NoValue, id, NullId,
                              Error("Domain not found or already deleted"))
            /\ UNCHANGED <<domains, calls>>
  /\ UNCHANGED <<rateVars, dbVars, users, chain_addresses, audit_log,
                 payment_requests, now, made, instructions, pureVars,
                 belonged>>

\* deleteDomain: model.softDeleteUsersByDomain, then true is returned
DomainUsersDeleted(c) ==
  /\ calls[c] # Idle
  /\ calls[c].op = "deleteDomain"
  /\ users' = softDeleteUsersByDomain(calls[c].id)
  /\ belonged' = MapSet(belonged, calls[c].id,
                        {u._id : u \in {v \in users :
                                          v.domain_id = calls[c].id}})
  /\ reply' = Reply("deleteDomain", NoValue, calls[c].id, NullId, Ok(TRUE))
  /\ calls' = [calls EXCEPT ![c] = Idle]
  /\ UNCHANGED <<rateVars, dbVars, chain_addresses, audit_log,
                 payment_requests, now, made, instructions, pureVars,
                 domains>>

\* the fields of options a caller passed
Has(options, field) == field \in DOMAIN options

\* the settings updateCurrencySettings is about to store
UpdatedSettings(currentSettings, options) ==
  [active |-> IF Has(options, "active")
                THEN options.active ELSE currentSettings.active,
   minSendable |-> IF Has(options, "minSendable")
                     THEN options.minSendable ELSE currentSettings.minSendable,
   maxSendable |-> IF Has(options, "maxSendable")
                     THEN options.maxSendable
                     ELSE currentSettings.maxSendable]

\* the validation of lines 162-178: the message thrown, or NoValue
LimitsError(currentSettings, options) ==
  IF Has(options, "minSendable") /\ Less(options.minSendable, 0)
    THEN "minSendable must be a non-negative number"
  ELSE IF Has(options, "maxSendable") /\ Less(options.maxSendable, 0)
    THEN "maxSendable must be a non-negative number"
  ELSE IF Greater(UpdatedSettings(currentSettings, options).minSendable,
                  UpdatedSettings(currentSettings, options).maxSendable)
    THEN "minSendable cannot be greater than maxSendable"
  ELSE NoValue

\* updateCurrencySettings(id, currencyCode, options) up to the write
updateCurrencySettings(c, id, currencyCode, options) ==
  /\ calls[c] = Idle
  /\ LET Throw(message) ==
           /\ reply' = Reply("updateCurrencySettings", currencyCode, id,
                             NullId, Error(message))
           /\ UNCHANGED calls
     IN IF currencyCode \notin VALID_DOMAIN_CURRENCIES
          THEN Throw("Invalid currency code")
        ELSE IF findDomainById(id) = {}
          THEN Throw("Domain not found")
        ELSE LET domain == CHOOSE d \in findDomainById(id) : TRUE
                 currentSettings == domain.currency_settings[currencyCode]
             IN IF LimitsError(currentSettings, options) # NoValue
                  THEN Throw(LimitsError(currentSettings, options))
                  ELSE /\ calls' = [calls EXCEPT ![c] =
                            [op |-> "updateCurrencySettings", pc |-> "write",
                             id |-> id, currencyCode |-> currencyCode,
                             settings |->
                               UpdatedSettings(currentSettings, options)]]
                       /\ UNCHANGED reply
  /\ UNCHANGED <<rateVars, dbVars, users, chain_addresses, audit_log,
                 payment_requests, now, made, instructions, pureVars,
                 domains, belonged>>

\* updateCurrencySettings: model.updateCurrencySettings and the result
CurrencySettingsWrite(c) ==
  /\ calls[c] # Idle
  /\ calls[c].op = "updateCurrencySettings"
  /\ IF findDomainById(calls[c].id) # {}
       THEN /\ domains' =
                 {IF d._id = calls[c].id /\ d.is_deleted # TRUE
                    THEN [d EXCEPT !.currency_settings[calls[c].currencyCode]
                                     = calls[c].settings]
                    ELSE d : d \in domains}
            /\ reply' = Reply("updateCurrencySettings", calls[c].currencyCode,
                              calls[c].id, NullId, Ok(calls[c].settings))
       ELSE /\ reply' = Reply("updateCurrencySettings", calls[c].currencyCode,
                              calls[c].id, NullId,
                              Error("Failed to update currency settings"))
            /\ UNCHANGED domains
  /\ calls' = [calls EXCEPT ![c] = Idle]
  /\ UNCHANGED <<rateVars, dbVars, users, chain_addresses, audit_log,
                 payment_requests, now, made, instructions, pureVars,
                 belonged>>

(***************************************************************************)
(* DomainService.deleteDomain of services/domains.js: the domain and what  *)
(* belongs to it are removed from the collections, one request at a time.  *)
(* members records the users of the domain when the call was made.         *)
(***************************************************************************)
\* deleteDomain(id): deleteOne on domains
HardDeleteDomain(c, id) ==
  /\ calls[c] = Idle
  /\ domains' = {d \in domains : d._id # id}
  /\ calls' = [calls EXCEPT ![c] =
       [op |-> "hardDeleteDomain", pc |-> "deleteMany", id |-> id,
        members |-> {u._id : u \in {v \in users : v.domain_id = id}},
        userIds |-> {}]]
  /\ UNCHANGED <<rateVars, dbVars, users, chain_addresses, audit_log,
                 payment_requests, now, made, instructions, pureVars,
                 reply, belonged>>

\* deleteMany on users with {domain_id: id}
HardDeleteUsers(c) ==
  /\ calls[c].op = "hardDeleteDomain"
  /\ calls[c].pc = "deleteMany"
  /\ users' = {u \in users : u.domain_id # calls[c].id}
  /\ calls' = [calls EXCEPT ![c].pc = "find"]
  /\ UNCHANGED <<rateVars, dbVars, chain_addresses, audit_log,
                 payment_requests, now, made, instructions, pureVars,
                 domainVars>>

\* find on users with {domain_id: id}; userIds is what it returns, and the
\* two deleteMany requests are made only when it is not empty
HardDeleteFind(c) ==
  /\ calls[c].op = "hardDeleteDomain"
  /\ calls[c].pc = "find"
  /\ LET userIds == {u._id : u \in {v \in users :
                                       v.domain_id = calls[c].id}}
     IN calls' = [calls EXCEPT
                    ![c].userIds = userIds,
                    ![c].pc = IF userIds # {} THEN "addresses" ELSE "return"]
  /\ UNCHANGED <<rateVars, dbVars, registryVars, payment_requests, now, made,
                 instructions, pureVars>>

\* deleteMany on chain_addresses with {user_id: {$in: userIds}}
HardDeleteAddresses(c) ==
  /\ calls[c].op = "hardDeleteDomain"
  /\ calls[c].pc = "addresses"
  /\ chain_addresses' =
       SelectSeq(chain_addresses, LAMBDA a : a.user_id \notin calls[c].userIds)
  /\ calls' = [calls EXCEPT ![c].pc = "payments"]
  /\ UNCHANGED <<rateVars, dbVars, users, audit_log, payment_requests, now,
                 made, instructions, pureVars, domainVars>>

\* deleteMany on payment_requests with {user_id: {$in: userIds}}
HardDeletePayments(c) ==
  /\ calls[c].op = "hardDeleteDomain"
  /\ calls[c].pc = "payments"
  /\ payment_requests' =
       {p \in payment_requests : p.user_id \notin calls[c].userIds}
  /\ calls' = [calls EXCEPT ![c].pc = "return"]
  /\ UNCHANGED <<rateVars, dbVars, registryVars, now, made, instructions,
                 pureVars>>

\* deleteDomain returns true
HardDeleteReturn(c) ==
  /\ calls[c].op = "hardDeleteDomain"
  /\ calls[c].pc = "return"
  /\ reply' = Reply("hardDeleteDomain", NoValue, calls[c].id, NullId,
                    Ok(TRUE))
  /\ calls' = [calls EXCEPT ![c] = Idle]
  /\ UNCHANGED <<rateVars, dbVars, users, chain_addresses, audit_log,
                 payment_requests, now, made, instructions, pureVars,
                 domains, belonged>>

(***************************************************************************)
(* User registry: what each operation returns or throws.                   *)
(***************************************************************************)
\* UserModel.findByUsername
findByUsername(username) ==
  {u \in users : u.username = username /\ u.is_deleted # TRUE}

\* UserModel.findAllAddresses
findAllAddresses(userId) ==
  SelectSeq(chain_addresses, LAMBDA a : a.user_id = userId)

\* UserModel.findByDomain
findByDomain(domainId) ==
  {u \in users : /\ u.domain_id = domainId
                 /\ u.is_active = TRUE
                 /\ u.is_deleted # TRUE}

UserNotFoundError == Error("User not found")

\* createUser(options) with its outcome: the three errors it can end with,
\* or the user it read back
CreateUser(username, domainId, sparkPublicKey, addresses) ==
  LET Throw(error) ==
        /\ reply' = Reply("createUser", username, domainId, NullId, error)
        /\ UNCHANGED <<rateVars, dbVars, users, chain_addresses, audit_log,
                       payment_requests, now, calls, made, instructions,
                       pureVars, domains, belonged>>
  IN IF ~isValidUsername(username)
       THEN Throw(Error("Invalid username format"))
     ELSE IF findByUsernameAndDomain(username, domainId) # {}
       THEN Throw(Error("User already exists in this domain"))
     ELSE IF UserConflict(ToLowerCase(username), domainId)
       THEN Throw(DuplicateKey)
     ELSE /\ createUser(username, domainId, sparkPublicKey, addresses)
          /\ reply' = Reply("createUser", username, domainId, NextUserId,
                            IF addresses # NoValue /\ ~AllResolve(addresses)
                              THEN Error("Invalid chain")
                              ELSE Ok(NextUserId))
          /\ UNCHANGED <<domains, belonged>>

\* a lookup that also finds deleted users
getUserById_IncludeDeleted(userId) == {u \in users : u._id = userId}

\* UserService.getUserById in its default mode: the profiles it may
\* return (the addresses it attaches to the profile are left out)
getUserById(userId) == findById(userId)

\* deleteUser(userId) with its outcome
DeleteUser(userId) ==
  IF findById(userId) = {}
    THEN /\ reply' = Reply("deleteUser", NoValue, NoValue, userId,
                           UserNotFoundError)
         /\ UNCHANGED <<rateVars, dbVars, users, chain_addresses, audit_log,
                        payment_requests, now, calls, made, instructions,
                        pureVars, domains, belonged>>
    ELSE /\ deleteUser(userId)
         /\ reply' = Reply("deleteUser", NoValue, NoValue, userId, Ok(TRUE))
         /\ UNCHANGED <<domains, belonged>>

\* the first step of updateUser, deactivateUser and activateUser: the user
\* is read, and 'User not found' is thrown when there is none
ReadUser(c, call) ==
  /\ calls[c] = Idle
  /\ IF getUserById(call.userId) = {}
       THEN /\ reply' = Reply(call.op, NoValue, NoValue, call.userId,
                              UserNotFoundError)
            /\ UNCHANGED calls
       ELSE /\ calls' = [calls EXCEPT ![c] =
                 [call EXCEPT !.domain_id =
                    (CHOOSE u \in getUserById(call.userId) : TRUE).domain_id]]
            /\ UNCHANGED reply
  /\ UNCHANGED <<rateVars, dbVars, users, chain_addresses, audit_log,
                 payment_requests, now, made, instructions, pureVars,
                 domains, belonged>>

UserCall(op, userId, chainName, address) ==
  [op |-> op, pc |-> "write", userId |-> userId, domain_id |-> NoValue,
   chainName |-> chainName, address |-> address]

\* updateUser(userId, {addresses: {[chainName]: address}})
updateUser(c, userId, chainName, address) ==
  ReadUser(c, UserCall("updateUser", userId, chainName, address))

\* updateUser: the address entry is deleted or upserted, the audit record
\* is written
UserUpdated(c) ==
  /\ calls[c] # Idle
  /\ calls[c].op = "updateUser"
  /\ chain_addresses' =
       IF calls[c].address = Null \/ calls[c].address = ""
         THEN SelectSeq(chain_addresses,
                LAMBDA a : ~(/\ a.user_id = calls[c].userId
                             /\ a.chain_name = ToLowerCase(calls[c].chainName)))
         ELSE upsertAddress(calls[c].userId, calls[c].chainName,
                            calls[c].address)
  /\ audit_log' = audit_log \cup
       {AuditEntry(calls[c].domain_id, "user_updated", calls[c].userId)}
  /\ reply' = Reply("updateUser", NoValue, NoValue, calls[c].userId,
                    FindOne(getUserById(calls[c].userId)))
  /\ calls' = [calls EXCEPT ![c] = Idle]
  /\ UNCHANGED <<rateVars, dbVars, users, payment_requests, now, made,
                 instructions, pureVars, domains, belonged>>

\* deactivateUser(userId)
deactivateUser(c, userId) ==
  ReadUser(c, UserCall("deactivateUser", userId, NoValue, NoValue))

\* activateUser(userId)
activateUser(c, userId) ==
  ReadUser(c, UserCall("activateUser", userId, NoValue, NoValue))

\* UserModel.setActive: the filter is the _id alone
setActive(userId, isActive) ==
  {IF u._id = userId THEN [u EXCEPT !.is_active = isActive] ELSE u :
     u \in users}

\* deactivateUser, activateUser: model.setActive and the audit record
UserActiveSet(c) ==
  /\ calls[c] # Idle
  /\ calls[c].op \in {"deactivateUser", "activateUser"}
  /\ users' = setActive(calls[c].userId, calls[c].op = "activateUser")
  /\ audit_log' = audit_log \cup
       {AuditEntry(calls[c].domain_id,
                   IF calls[c].op = "activateUser"
                     THEN "user_activated" ELSE "user_deactivated",
                   calls[c].userId)}
  /\ reply' = Reply(calls[c].op, NoValue, NoValue, calls[c].userId, Ok(TRUE))
  /\ calls' = [calls EXCEPT ![c] = Idle]
  /\ UNCHANGED <<rateVars, dbVars, chain_addresses, payment_requests, now,
                 made, instructions, pureVars, domains, belonged>>

\* addUserAddress(userId, chainName, address) with its outcome
AddUserAddress(userId, chainName, address) ==
  /\ addUserAddress(userId, chainName, address)
  /\ reply' = Reply("addUserAddress", chainName, NoValue, userId, Ok(TRUE))
  /\ UNCHANGED <<domains, belonged>>

UndefinedChain == Error("Cannot read properties of undefined")

\* formatted[addr.chain_name] = {address, chainId}, for the addresses in
\* store order; chainId 0 stands for a property that is left out
Formatted(addresses) ==
  [chain \in {addresses[i].chain_name : i \in 1..Len(addresses)} |->
     [address |-> (CHOOSE a \in Range(addresses) :
                     a.chain_name = chain).address,
      chainId |-> chainMapping[chain].chainId]]

\* getFormattedAddresses(userId): CHAIN_MAPPING[addr.chain_name].chainId is
\* read for every active address
getFormattedAddresses(userId) ==
  IF \E a \in Range(findAddresses(userId)) :
       a.chain_name \notin DOMAIN chainMapping
    THEN UndefinedChain
    ELSE Ok(Formatted(findAddresses(userId)))

GetFormattedAddresses(userId) ==
  /\ reply' = Reply("getFormattedAddresses", NoValue, NoValue, userId,
                    getFormattedAddresses(userId))
  /\ UNCHANGED <<rateVars, dbVars, users, chain_addresses, audit_log,
                 payment_requests, now, calls, made, instructions, pureVars,
                 domains, belonged>>

\* enrichUserWithAddresses(user): the user with its formatted addresses and
\* the layers of their chains, in store order
enrichUserWithAddresses(user) ==
  IF getFormattedAddresses(user._id).kind = "error"
    THEN getFormattedAddresses(user._id)
    ELSE Ok([user |-> user,
             addresses |-> getFormattedAddresses(user._id).value,
             settlementOptions |->
               [i \in 1..Len(findAddresses(user._id)) |->
                  chainMapping[findAddresses(user._id)[i].chain_name].layer]])

EnrichUserWithAddresses(user) ==
  /\ reply' = Reply("enrichUserWithAddresses", NoValue, NoValue, user._id,
                    enrichUserWithAddresses(user))
  /\ UNCHANGED <<rateVars, dbVars, users, chain_addresses, audit_log,
                 payment_requests, now, calls, made, instructions, pureVars,
                 domains, belonged>>

(***************************************************************************)
(* Initial state: a fresh database on which initializeDatabase has run,    *)
(* as every entry point does first (src/cli.js:107, src/src/db/init.js).   *)
(***************************************************************************)
Init ==
  /\ collections = AllCollections
  /\ indexes = InitializedIndexes({}, {})
  /\ users = {}
  /\ chain_addresses = <<>>
  /\ audit_log = {}
  /\ payment_requests = {}
  /\ now = 0
  /\ calls = [c \in CallIds |-> Idle]
  /\ made = {}
  /\ instructions = [n \in Nonces |-> 0]
  /\ input = Pending
  /\ output = Pending
  /\ TEST_MODE = FALSE
  /\ cache = <<>>
  /\ lastFetch = <<>>
  /\ requests = 0
  /\ written = <<>>
  /\ domains = {}
  /\ reply = NoReply
  /\ belonged = <<>>

\* payloads of direct createPaymentRequest calls (tests/payments.test.js)
Payloads ==
  {[amountMsats |-> 5000, invoiceOrAddress |-> "0x123456789abcdef"],
   [amountMsats |-> 10000, invoiceOrAddress |-> "0x987654321fedcba"]}

NextStore ==
  \/ InitializeDatabase
  \/ Tick
  \/ \E c \in CallIds, nonce \in Nonces, p \in Payloads :
        CreatePaymentRequest(c, 1, nonce, p.amountMsats, "USD", "polygon",
                             "USDT_POLYGON", p.invoiceOrAddress)
  \/ \E c \in CallIds : CreatePaymentInsert(c)
  \/ \E id \in 1..MaxPayments : UpdatePaymentStatus(id, "paid")
  \/ \E c \in CallIds : Return(c)

SpecStore == Init /\ [][NextStore]_vars

\* a database nothing has run on: no collection, no index
InitEmpty ==
  /\ collections = {}
  /\ indexes = {}
  /\ users = {}
  /\ chain_addresses = <<>>
  /\ audit_log = {}
  /\ payment_requests = {}
  /\ now = 0
  /\ calls = [c \in CallIds |-> Idle]
  /\ made = {}
  /\ instructions = [n \in Nonces |-> 0]
  /\ input = Pending
  /\ output = Pending
  /\ TEST_MODE = FALSE
  /\ cache = <<>>
  /\ lastFetch = <<>>
  /\ requests = 0
  /\ written = <<>>
  /\ domains = {}
  /\ reply = NoReply
  /\ belonged = <<>>

\* payment requests created before and after initializeDatabase
NextBoot ==
  \/ InitializeDatabase
  \/ \E c \in CallIds, nonce \in Nonces :
        CreatePaymentRequest(c, 1, nonce, 5000, "USD", "polygon",
                             "USDT_POLYGON", "0x123456789abcdef")
  \/ \E c \in CallIds : CreatePaymentInsert(c)
  \/ \E c \in CallIds : Return(c)

SpecBoot == InitEmpty /\ [][NextBoot]_vars

\* the settlement choices of pay requests (tests/uma.test.js)
SettlementChoices ==
  {<<NoValue, NoValue>>, <<"ln", "BTC_LN">>, <<"polygon", "USDT_POLYGON">>,
   <<"unsupported", "UNSUPPORTED_TOKEN">>}

\* the amount each caller asks for (tests/uma.test.js:56, 71)
Amount(c) == IF c = "c1" THEN 10000 ELSE 15000

\* the nonces each caller draws from: both callers can use "n1"
NoncesOf(c) == IF c = "c1" THEN Nonces ELSE {"n1"}

Next ==
  \/ InitializeDatabase
  \/ \E spark \in SparkKeys \cup {Null},
        addresses \in {NoValue, <<<<"polygon", "0xA">>>>} :
        createUser("alice", "d1", spark, addresses) /\ UNCHANGED domainVars
  \/ \E id \in 1..MaxUsers : deleteUser(id) /\ UNCHANGED domainVars
  \/ \E id \in 1..MaxUsers, a \in Addresses :
        addUserAddress(id, "polygon", a) /\ UNCHANGED domainVars
  \/ \E id \in 1..MaxUsers :
        removeUserAddress(id, "polygon") /\ UNCHANGED domainVars
  \/ \E c \in CallIds : \E nonce \in NoncesOf(c), choice \in SettlementChoices :
        generatePayResponse(c, "alice", "d1", Amount(c), nonce, "USD",
                            choice[1], choice[2])
  \/ \E c \in CallIds : PayInsert(c)
  \/ \E c \in CallIds, generated \in BOOLEAN : PayLightning(c, generated)
  \/ \E c \in CallIds : PayAddress(c)
  \/ \E c \in CallIds : Return(c)

Spec == Init /\ [][Next]_vars

BtcPrices == {100000, 50000}

NextLookup ==
  \/ \E username \in Usernames, domainId \in DomainIds,
        addresses \in {NoValue,
                       <<<<"lightning", "lnbc1000n1">>, <<"polygon", "0xA">>>>,
                       <<<<"unknown", "0xA">>>>} :
        createUser(username, domainId, Null, addresses)
          /\ UNCHANGED domainVars
  \/ \E id \in 1..MaxUsers : deleteUser(id) /\ UNCHANGED domainVars
  \/ \E id \in 1..MaxUsers, chain \in {"polygon", "unknown"} :
        addUserAddress(id, chain, "0xA") /\ UNCHANGED domainVars
  \/ \E id \in 1..MaxUsers :
        removeUserAddress(id, "polygon") /\ UNCHANGED domainVars
  \/ \E username \in Usernames, domainId \in DomainIds :
        generateLookupResponse("c1", username, domainId)
  \/ \E testMode \in BOOLEAN, price \in BtcPrices :
        LookupRespond("c1", testMode, price)
  \/ Return("c1")

SpecLookup == Init /\ [][NextLookup]_vars

\* the chain keys of the mappings handed to buildSettlementOptions
ChainKeys == {"lightning", "polygon", "spark", "solana", "unknown"}

RECURSIVE Distinct(_)
Distinct(seq) ==
  \/ seq = <<>>
  \/ /\ Head(seq) \notin Range(Tail(seq))
     /\ Distinct(Tail(seq))

\* the mappings of at most MaxChains distinct chain keys, as entry sequences
ChainInputs ==
  UNION {{[i \in 1..n |-> <<keys[i], "0xA">>] :
            keys \in {k \in [1..n -> ChainKeys] : Distinct(k)}} :
         n \in 0..MaxChains}

InitOptions ==
  /\ collections = AllCollections
  /\ indexes = InitializedIndexes({}, {})
  /\ users = {}
  /\ chain_addresses = <<>>
  /\ audit_log = {}
  /\ payment_requests = {}
  /\ now = 0
  /\ calls = [c \in CallIds |-> Idle]
  /\ made = {}
  /\ instructions = [n \in Nonces |-> 0]
  /\ input \in [chains : ChainInputs, currencies : {<<"USD">>},
                testMode : BOOLEAN, btcPriceUsd : {100000}]
  /\ output = Pending
  /\ TEST_MODE = FALSE
  /\ cache = <<>>
  /\ lastFetch = <<>>
  /\ requests = 0
  /\ written = <<>>
  /\ domains = {}
  /\ reply = NoReply
  /\ belonged = <<>>

NextOptions == BuildSettlementOptions

SpecOptions == InitOptions /\ [][NextOptions]_vars

\* the BTC prices the exchange answers with: the test price, a price whose
\* quotient ends in one half, a price above 2 * 10^9, zero, a negative price
FetchPrices == {100000, 640000, 2100000000, 0, -100}

\* the responses to a batch request: per symbol asked for, an array for it
\* or null
RECURSIVE BatchData(_)
BatchData(symbols) ==
  IF symbols = <<>> THEN {<<>>}
  ELSE {<<first>> \o rest :
          first \in {Item(Head(symbols), TEST_PRICES[Head(symbols)]),
                     NullItem},
          rest \in BatchData(Tail(symbols))}

\* the currency lists a caller asks multipliers for
CurrencyLists == {<<"USD">>, <<"EUR">>}

InitRates ==
  /\ collections = AllCollections
  /\ indexes = InitializedIndexes({}, {})
  /\ users = {}
  /\ chain_addresses = <<>>
  /\ audit_log = {}
  /\ payment_requests = {}
  /\ now = 0
  /\ calls = [c \in CallIds |-> Idle]
  /\ made = {}
  /\ instructions = [n \in Nonces |-> 0]
  /\ input = Pending
  /\ output = Pending
  /\ TEST_MODE \in BOOLEAN
  /\ cache = <<>>
  /\ lastFetch = <<>>
  /\ requests = 0
  /\ written = <<>>
  /\ domains = {}
  /\ reply = NoReply
  /\ belonged = <<>>

NextRates ==
  \/ RateTick
  \/ \E c \in CallIds : getTicker(c, "tBTCUSD")
  \/ getBtcUsdPrice("c1")
  \/ getEthUsdPrice("c1")
  \/ \E key \in DOMAIN chainMapping, currencies \in CurrencyLists :
        CalculateMultipliers("c1", chainMapping[key].asset, currencies)
  \/ \E currencies \in CurrencyLists :
        CalculateMultipliers("c1", "USD", currencies)
  \/ \E c \in CallIds, price \in FetchPrices : FetchSucceeds(c, price)
  \/ \E c \in CallIds : FetchFails(c)
  \/ getTickers("c1", <<"tBTCUSD", "tETHUSD">>)
  \/ \E data \in BatchData(<<"tBTCUSD", "tETHUSD">>) :
        GetTickersSucceeds("c1", data)
  \/ GetTickersFails("c1")
  \/ clearCache
  \/ \E c \in CallIds : Return(c)

SpecRates == InitRates /\ [][NextRates]_vars

\* the names callers register and look up
DomainInputs ==
  {"example.com", "Example.COM/", "www.example.com", "/", "other.org"}

\* the options callers pass to updateCurrencySettings
CurrencyOptions ==
  {[active |-> FALSE, minSendable |-> 500, maxSendable |-> 50000],
   [minSendable |-> 10000, maxSendable |-> 100],
   [minSendable |-> 60000],
   [maxSendable |-> 500],
   [minSendable |-> 0 - 1],
   [maxSendable |-> 0 - 1],
   [minSendable |-> NaN],
   [maxSendable |-> NaN]}

NextDomains ==
  \/ \E c \in CallIds, domain \in DomainInputs : createDomain(c, domain)
  \/ \E c \in CallIds : DomainInsert(c)
  \/ \E c \in CallIds : DomainCreated(c)
  \/ \E id \in DomainIds : updateDomain("c1", id, "Renamed")
  \/ DomainUpdated("c1")
  \/ \E id \in DomainIds : deleteDomain("c2", id)
  \/ DomainUsersDeleted("c2")
  \/ \E domainId \in DomainIds : CreateUser("alice", domainId, Null, NoValue)

SpecDomains == Init /\ [][NextDomains]_vars

\* the currency settings of one domain, updated by two callers while the
\* domain is created and deleted
NextCurrency ==
  \/ createDomain("c1", "example.com")
  \/ DomainInsert("c1")
  \/ DomainCreated("c1")
  \/ \E c \in CallIds, currencyCode \in {"BTC", "EUR"},
        options \in CurrencyOptions :
        updateCurrencySettings(c, "d1", currencyCode, options)
  \/ \E c \in CallIds : CurrencySettingsWrite(c)
  \/ updateDomain("c1", "d1", "Renamed")
  \/ DomainUpdated("c1")
  \/ deleteDomain("c2", "d1")
  \/ DomainUsersDeleted("c2")

SpecCurrency == Init /\ [][NextCurrency]_vars

\* the user registry with the outcome of every call
NextUsers ==
  \/ \E username \in {"alice", "Alice"},
        addresses \in {NoValue, <<<<"polygon", "0xA">>>>} :
        CreateUser(username, "d1", Null, addresses)
  \/ \E userId \in 1..MaxUsers : DeleteUser(userId)
  \/ \E c \in CallIds, userId \in 1..MaxUsers,
        entry \in {<<"unknown", "0xB">>, <<"polygon", Null>>} :
        updateUser(c, userId, entry[1], entry[2])
  \/ \E c \in CallIds : UserUpdated(c)
  \/ \E userId \in 1..MaxUsers : deactivateUser("c1", userId)
  \/ \E userId \in 1..MaxUsers : activateUser("c1", userId)
  \/ UserActiveSet("c1")
  \/ \E userId \in 1..MaxUsers, chainName \in {"solana", "unknown"} :
        AddUserAddress(userId, chainName, "0xA")
  \/ \E userId \in 1..MaxUsers : GetFormattedAddresses(userId)
  \/ \E user \in users : EnrichUserWithAddresses(user)

SpecUsers == Init /\ [][NextUsers]_vars

\* createUser with chain keys inside and outside the chain mapping
AddressInputs ==
  {NoValue,
   <<<<"polygon", "0xA">>>>,
   <<<<"unknown", "0xA">>>>,
   <<<<"polygon", "0xA">>, <<"unknown", "0xB">>>>}

NextCreate ==
  \/ \E username \in Usernames, domainId \in DomainIds,
        addresses \in AddressInputs :
        CreateUser(username, domainId, Null, addresses)
  \/ \E userId \in 1..MaxUsers : DeleteUser(userId)
  \/ \E userId \in 1..MaxUsers, chainName \in {"solana", "unknown"} :
        AddUserAddress(userId, chainName, "0xA")

SpecCreate == Init /\ [][NextCreate]_vars

\* a domain with users, addresses and payment requests, and deleteDomain of
\* services/domains.js; MaxMembers users are created in all
NextHardDelete ==
  \/ createDomain("c1", "example.com")
  \/ DomainInsert("c1")
  \/ DomainCreated("c1")
  \/ /\ NextUserId <= MaxMembers
     /\ CreateUser("alice", "d1", Null, <<<<"polygon", "0xA">>>>)
  \/ \E nonce \in Nonces :
        CreatePaymentRequest("c1", 1, nonce, 5000, "USD", "polygon",
                             "USDT_POLYGON", "0x123456789abcdef")
  \/ CreatePaymentInsert("c1")
  \/ Return("c1")
  \/ HardDeleteDomain("c2", "d1")
  \/ HardDeleteUsers("c2")
  \/ HardDeleteFind("c2")
  \/ HardDeleteAddresses("c2")
  \/ HardDeletePayments("c2")
  \/ HardDeleteReturn("c2")

SpecHardDelete == Init /\ [][NextHardDelete]_vars


(***************************************************************************)
(* Properties of the pay phase and of the payment-request store.           *)
(***************************************************************************)
\* the addresses stored as active for a user under a chain key
StoredAddress(userId, chain) ==
  {chain_addresses[i].address :
     i \in {j \in 1..Len(chain_addresses) :
              /\ chain_addresses[j].user_id = userId
              /\ chain_addresses[j].chain_name = chain
              /\ chain_addresses[j].is_active = TRUE}}

\* the stored Spark public key of the user a pay call resolved
StoredSparkKey(c) ==
  (CHOOSE u \in users : u._id = calls[c].userId).spark_public_key

\* a pay call that resolved its user returns in this step
Completes(c) ==
  /\ calls[c].op = "generatePayResponse"
  /\ calls[c].pc # "done"
  /\ calls'[c].pc = "done"

\* the same, for a call whose nonce the store accepted
CompletesAccepted(c) ==
  /\ calls[c].op = "generatePayResponse"
  /\ calls[c].pc = "instruction"
  /\ calls'[c].pc = "done"

NonceStoredOnce ==
  /\ \A p, q \in payment_requests : p.nonce = q.nonce => p = q
  /\ \A c \in CallIds :
       (calls[c].op = "createPaymentRequest" /\ calls[c].pc = "done")
       => /\ \E p \in payment_requests : p.nonce = calls[c].nonce
          /\ calls[c].result # NullId
             => \E p \in payment_requests :
                  p._id = calls[c].result /\ p.nonce = calls[c].nonce
  /\ \A c, d \in CallIds :
       (/\ c # d
        /\ calls[c].op = "createPaymentRequest" /\ calls[c].pc = "done"
        /\ calls[d].op = "createPaymentRequest" /\ calls[d].pc = "done"
        /\ calls[c].nonce = calls[d].nonce)
       => (calls[c].result = NullId \/ calls[d].result = NullId)

\* two overlapping calls with one nonce returned: one id, one null
NonceStoredOnceWitness ==
  \E c, d \in CallIds :
    /\ calls[c].op = "createPaymentRequest" /\ calls[c].pc = "done"
    /\ calls[d].op = "createPaymentRequest" /\ calls[d].pc = "done"
    /\ calls[c].nonce = calls[d].nonce
    /\ calls[c].result # NullId
    /\ calls[d].result = NullId
    /\ calls[c].amountMsats # calls[d].amountMsats

\* C3: a createPaymentRequest whose nonce is already stored returns null,
\* adds no document and leaves every stored document as it was.
DuplicateCreateKeepsStore ==
  [][\A c \in CallIds :
       (/\ calls[c].op = "createPaymentRequest"
        /\ calls[c].pc = "insertOne"
        /\ calls'[c].pc = "done"
        /\ \E p \in payment_requests : p.nonce = calls[c].nonce)
       => (/\ calls'[c].result = NullId
           /\ payment_requests' = payment_requests)]_vars

\* a duplicate returned null while the stored document still differs from
\* the duplicate's arguments and keeps its updated status
DuplicateCreateKeepsStoreWitness ==
  \E c \in CallIds :
    /\ calls[c].op = "createPaymentRequest"
    /\ calls[c].pc = "done"
    /\ calls[c].result = NullId
    /\ \E p \in payment_requests :
         /\ p.nonce = calls[c].nonce
         /\ p.amount_msats # calls[c].amountMsats
         /\ p.invoice_or_address # calls[c].invoiceOrAddress
         /\ p.expires_at # calls[c].expiresAt
         /\ p.status = "paid"

PayReturnsAddress ==
  [][\A c \in CallIds :
       (/\ Completes(c)
        /\ calls[c].settlementLayer \notin {NoValue, "ln"}
        /\ StoredAddress(calls[c].userId, calls[c].settlementLayer) # {})
       => (/\ calls'[c].result.kind = "ok"
           /\ calls'[c].result.pr \in
                StoredAddress(calls[c].userId, calls[c].settlementLayer)
           /\ calls'[c].result.disposable = FALSE)]_vars

\* C5, amended: the same for every such call whose nonce was not stored
\* before (the store accepted its payment request).
PayReturnsAddressFreshNonce ==
  [][\A c \in CallIds :
       (/\ CompletesAccepted(c)
        /\ calls[c].settlementLayer \notin {NoValue, "ln"}
        /\ StoredAddress(calls[c].userId, calls[c].settlementLayer) # {})
       => (/\ calls'[c].result.kind = "ok"
           /\ calls'[c].result.pr \in
                StoredAddress(calls[c].userId, calls[c].settlementLayer)
           /\ calls'[c].result.disposable = FALSE)]_vars

\* a polygon call returned the address that replaced the first one
PayReturnsAddressWitness ==
  \E c \in CallIds :
    /\ calls[c].op = "generatePayResponse"
    /\ calls[c].pc = "done"
    /\ calls[c].settlementLayer = "polygon"
    /\ calls[c].result.kind = "ok"
    /\ calls[c].result.pr = "0xB"
    /\ calls[c].result.disposable = FALSE
    /\ StoredAddress(calls[c].userId, "polygon") = {"0xB"}

LookupUnknownUserIsNull ==
  [][\A c \in CallIds :
       (/\ calls[c] = Idle
        /\ calls'[c] # Idle
        /\ calls'[c].op = "generateLookupResponse"
        /\ ~\E u \in users : /\ u.username = calls'[c].username
                             /\ u.domain_id = calls'[c].domainId
                             /\ u.is_deleted = FALSE)
       => (/\ calls'[c].pc = "done"
           /\ calls'[c].result = NullResponse)]_vars

\* a lookup returned null for a username that exists in the other domain
LookupUnknownUserIsNullWitness ==
  \E c \in CallIds :
    /\ calls[c].op = "generateLookupResponse"
    /\ calls[c].pc = "done"
    /\ calls[c].result = NullResponse
    /\ \E u \in users : /\ u.username = calls[c].username
                        /\ u.domain_id # calls[c].domainId
                        /\ u.is_deleted = FALSE

\* the layer of each chain key of the catalog that the inputs use
ExpectedLayer ==
  [lightning |-> "ln", polygon |-> "polygon", spark |-> "spark",
   solana |-> "solana"]

InputKeys == {input.chains[i][1] : i \in 1..Len(input.chains)}

\* C10: buildSettlementOptions returns, for any mapping of chain keys to
\* addresses, one option per chain key that the chain mapping resolves, with
\* the layer of that key; other keys add no option and no failure.
OptionsMatchCatalog ==
  output # Pending
  => /\ output.kind = "ok"
     /\ {o.settlementLayer : o \in Range(output.options)} =
          {ExpectedLayer[k] : k \in InputKeys \cap DOMAIN ExpectedLayer}
     /\ Len(output.options) =
          Cardinality(InputKeys \cap DOMAIN ExpectedLayer)

\* options were built from a mapping with an unknown key among known ones
OptionsMatchCatalogWitness ==
  /\ output # Pending
  /\ {"unknown", "polygon", "lightning"} \subseteq InputKeys
  /\ {o.settlementLayer : o \in Range(output.options)} = {"polygon", "ln"}

(***************************************************************************)
(* Properties of the rate oracle.                                          *)
(***************************************************************************)
\* the fetch of call slot c fails in this step
FetchFailsNow(c) ==
  /\ calls[c].op = "getTicker"
  /\ calls[c].pc = "fetch"
  /\ calls'[c].fetched = "failed"

\* C11: when the fetch of a getTicker call fails while the cache holds a
\* quote for the symbol, the call returns that quote and does not fail.
StaleQuoteOnFailure ==
  [][\A c \in CallIds :
       (FetchFailsNow(c) /\ calls[c].symbol \in DOMAIN cache)
       => calls'[c].result =
            [kind |-> "ticker", ticker |-> cache[calls[c].symbol]]]_vars

\* a getTicker call whose fetch failed returned a quote older than the TTL
StaleQuoteOnFailureWitness ==
  \E c \in CallIds :
    /\ calls[c].op = "getTicker"
    /\ calls[c].pc = "done"
    /\ calls[c].fetched = "failed"
    /\ calls[c].symbol \in DOMAIN cache
    /\ calls[c].result = [kind |-> "ticker", ticker |-> cache[calls[c].symbol]]
    /\ calls[c].now - lastFetch[calls[c].symbol] >= CACHE_TTL_MS

\* C12: when the fetch of a getTicker call fails while the cache holds no
\* entry for the symbol, the call fails with the fetch error and returns no
\* quote.
FailureWithoutQuoteThrows ==
  [][\A c \in CallIds :
       (FetchFailsNow(c) /\ calls[c].symbol \notin DOMAIN cache)
       => calls'[c].result = FetchError]_vars

\* a getTicker call failed on an empty cache, two requests being issued
FailureWithoutQuoteThrowsWitness ==
  \E c \in CallIds :
    /\ calls[c].op = "getTicker"
    /\ calls[c].pc = "done"
    /\ calls[c].fetched = "failed"
    /\ calls[c].result = FetchError
    /\ calls[c].symbol \notin DOMAIN cache
    /\ requests >= 2

\* a getTicker call for symbol begins in call slot c in this step
GetTickerBegins(c, symbol) ==
  /\ calls[c] = Idle
  /\ calls'[c] # Idle
  /\ calls'[c].op = "getTicker"
  /\ calls'[c].symbol = symbol

\* C13: a getTicker call for a symbol whose cache entry was stored less than
\* CACHE_TTL_MS ago returns the cached quote and issues no network request.
YoungQuoteFromCache ==
  [][\A c \in CallIds : \A symbol \in DOMAIN cache :
       (GetTickerBegins(c, symbol) /\ now - written[symbol].at < CACHE_TTL_MS)
       => /\ calls'[c].pc = "done"
          /\ calls'[c].result = [kind |-> "ticker", ticker |-> cache[symbol]]
          /\ requests' = requests]_vars

\* C14: a quote whose getTicker fetch completed at time c is served from the
\* cache by every getTicker call made before c + CACHE_TTL_MS.
TtlFromFetchCompletion ==
  [][\A c \in CallIds : \A symbol \in DOMAIN cache :
       (/\ GetTickerBegins(c, symbol)
        /\ ~TEST_MODE
        /\ written[symbol].by = "getTicker"
        /\ now < written[symbol].at + CACHE_TTL_MS)
       => calls'[c].pc # "fetch"]_vars

\* C15: in every state, the cache has a quote for a symbol exactly when
\* lastFetch has a timestamp for it, and that timestamp is the one written
\* with the quote.
QuoteAndTimestampTogether ==
  /\ DOMAIN cache = DOMAIN lastFetch
  /\ \A symbol \in DOMAIN cache : lastFetch[symbol] = written[symbol].stamp

\* a call awaiting its fetch sees a quote that another call stored after a
\* fetch that took time
QuoteAndTimestampTogetherWitness ==
  /\ \E c \in CallIds : calls[c] # Idle /\ calls[c].pc = "fetch"
  /\ \E symbol \in DOMAIN cache :
       written[symbol].at > written[symbol].stamp
  /\ requests >= 2

\* what a finished rate call returned is taken from the fixed tables
FromTables(call) ==
  CASE call.result.kind = "ticker" ->
         call.result.ticker = Ticker(TEST_PRICES[call.symbol])
    [] call.result.kind = "price" ->
         call.result.price = TEST_PRICES[call.symbol]
    [] call.result.kind = "multipliers" ->
         call.result.multipliers = TEST_MULTIPLIERS[call.asset]
    [] call.result.kind = "tickers" ->
         \A symbol \in DOMAIN call.result.tickers :
           call.result.tickers[symbol] = Ticker(TEST_PRICES[symbol])
    [] OTHER -> FALSE

\* C16: while TEST_MODE is set, no operation of the rate oracle issues a
\* network request, and every operation returns the values of the fixed
\* tables.
TestModeBypassesNetwork ==
  [][TEST_MODE =>
       /\ requests' = requests
       /\ \A c \in CallIds :
            (calls'[c] # calls[c] /\ calls'[c] # Idle /\ calls'[c].pc = "done")
            => FromTables(calls'[c])]_vars

\* the batch response of call slot c arrives in this step
BatchArrives(c) ==
  /\ calls[c].op = "getTickers"
  /\ calls[c].pc = "fetch"
  /\ calls'[c].fetched = "ok"

\* C17: when the response of getTickers holds one malformed entry, the call
\* does not fail: every well-formed entry of the response is stored with its
\* timestamp and is returned.
BatchSurvivesMalformedEntry ==
  [][\A c \in CallIds :
       (/\ BatchArrives(c)
        /\ Cardinality({i \in DOMAIN calls'[c].response :
                          ~calls'[c].response[i].array}) = 1)
       => /\ calls'[c].result.kind = "tickers"
          /\ \A i \in DOMAIN calls'[c].response :
               LET item == calls'[c].response[i]
               IN item.array
                  => /\ item.symbol \in DOMAIN calls'[c].result.tickers
                     /\ item.symbol \in DOMAIN cache'
                     /\ cache'[item.symbol] = Ticker(item.lastPrice)
                     /\ lastFetch'[item.symbol] = now]_vars

\* a calculateMultipliers call for BTC outside test mode finishes in this
\* step with a BTC/USD quote: the quote it used is the one the cache holds
\* after the step (fresh, cached or stale)
MultipliersFromQuote(c) ==
  /\ ~TEST_MODE
  /\ calls'[c] # calls[c]
  /\ calls'[c] # Idle
  /\ calls'[c].op = "calculateMultipliers"
  /\ calls'[c].asset = "BTC"
  /\ "USD" \in Range(calls'[c].currencies)
  /\ calls'[c].pc = "done"
  /\ "tBTCUSD" \in DOMAIN cache'

\* C18: outside test mode the USD multiplier of BTC is 10^11 / (P * 100)
\* rounded to the nearest integer, halves up, for the positive last price P
\* the oracle gave; P = 100000 gives 10000.
MultiplierIsRoundedQuotient ==
  [][\A c \in CallIds :
       (MultipliersFromQuote(c) /\ cache'["tBTCUSD"].lastPrice > 0)
       => LET P == cache'["tBTCUSD"].lastPrice
              m == calls'[c].result.multipliers.USD
          IN /\ calls'[c].result.kind = "multipliers"
             /\ (2 * m - 1) * P <= 2000000000
             /\ 2000000000 < (2 * m + 1) * P
             /\ (P = 100000 => m = 10000)]_vars

\* a multiplier was computed from a stale quote whose quotient ends in one
\* half
MultiplierIsRoundedQuotientWitness ==
  \E c \in CallIds :
    /\ calls[c].op = "calculateMultipliers"
    /\ calls[c].pc = "done"
    /\ calls[c].fetched = "failed"
    /\ "tBTCUSD" \in DOMAIN cache
    /\ cache["tBTCUSD"].lastPrice = 640000
    /\ calls[c].result = [kind |-> "multipliers", multipliers |-> [USD |-> 1563]]

\* C19: every multiplier calculateMultipliers returns is an integer >= 1
\* whenever the BTC price the oracle gave is positive.
MultipliersArePositive ==
  [][\A c \in CallIds :
       (MultipliersFromQuote(c) /\ cache'["tBTCUSD"].lastPrice > 0)
       => /\ calls'[c].result.kind = "multipliers"
          /\ \A currency \in DOMAIN calls'[c].result.multipliers :
               /\ calls'[c].result.multipliers[currency] >= 1
               /\ calls'[c].result.multipliers[currency] # Infinity]_vars

\* C20: when the oracle gives a zero or negative BTC price,
\* calculateMultipliers for BTC fails and returns no multiplier.
NonPositivePriceFails ==
  [][\A c \in CallIds :
       (MultipliersFromQuote(c) /\ cache'["tBTCUSD"].lastPrice <= 0)
       => calls'[c].result.kind = "error"]_vars

\* a calculateMultipliers call starts in this step
MultipliersBegin(c) ==
  /\ calls[c] = Idle
  /\ calls'[c] # Idle
  /\ calls'[c].op = "calculateMultipliers"

\* C21: for every chain key whose asset is USDT, in every cache state and
\* in both modes, calculateMultipliers returns at once, without a network
\* request and without touching the cache, and the USD multiplier it returns
\* is 10000; outside test mode the entry is there whenever USD was asked for.
UsdtMultiplierIsFixed ==
  [][\A c \in CallIds : \A key \in DOMAIN chainMapping :
       (/\ MultipliersBegin(c)
        /\ chainMapping[key].asset = "USDT"
        /\ calls'[c].asset = chainMapping[key].asset)
       => /\ calls'[c].pc = "done"
          /\ calls'[c].result.kind = "multipliers"
          /\ requests' = requests
          /\ cache' = cache
          /\ lastFetch' = lastFetch
          /\ \A currency \in DOMAIN calls'[c].result.multipliers :
               calls'[c].result.multipliers[currency] = 10000
          /\ ("USD" \in Range(calls'[c].currencies)
              => "USD" \in DOMAIN calls'[c].result.multipliers)]_vars

\* USDT was priced outside test mode while the cache held a BTC quote that
\* gives BTC another multiplier
UsdtMultiplierIsFixedWitness ==
  /\ ~TEST_MODE
  /\ "tBTCUSD" \in DOMAIN cache
  /\ cache["tBTCUSD"].lastPrice = 640000
  /\ calls["c1"] # Idle
  /\ calls["c1"].op = "calculateMultipliers"
  /\ calls["c1"].asset = "USDT"
  /\ calls["c1"].pc = "done"
  /\ calls["c1"].result =
       [kind |-> "multipliers", multipliers |-> [USD |-> 10000]]

\* C22: the mapping calculateMultipliers returns has an entry only for a
\* requested currency whose pair with the asset is implemented (USD with
\* BTC, USD with USDT), in test mode as well as outside it.
OnlyRequestedImplementedPairs ==
  [][\A c \in CallIds :
       (/\ calls'[c] # calls[c]
        /\ calls'[c] # Idle
        /\ calls'[c].op = "calculateMultipliers"
        /\ calls'[c].pc = "done"
        /\ calls'[c].result.kind = "multipliers")
       => \A currency \in DOMAIN calls'[c].result.multipliers :
            /\ currency \in Range(calls'[c].currencies)
            /\ currency = "USD"
            /\ calls'[c].asset \in {"BTC", "USDT"}]_vars

\* C29: at no time are two fetches of getTicker for the same symbol
\* outstanding.
SingleFetchInFlight ==
  \A c1 \in CallIds : \A c2 \in CallIds \ {c1} :
    ~ /\ calls[c1] # Idle
      /\ calls[c2] # Idle
      /\ calls[c1].op = "getTicker"
      /\ calls[c2].op = "getTicker"
      /\ calls[c1].pc = "fetch"
      /\ calls[c2].pc = "fetch"
      /\ calls[c1].symbol = calls[c2].symbol

\* the fetch of the getTicker call of slot c stores its quote in this step
FetchStores(c) ==
  /\ calls[c].op = "getTicker"
  /\ calls[c].pc = "fetch"
  /\ calls'[c].fetched = "ok"

\* C32: under every interleaving of overlapping getTicker and getTickers
\* calls, the fetch timestamp of a symbol never decreases, and the quote a
\* getTicker fetch stored is not replaced by a getTicker fetch that started
\* earlier.
NewerQuoteKept ==
  [][/\ \A symbol \in DOMAIN lastFetch :
          symbol \in DOMAIN lastFetch'
          => lastFetch'[symbol] >= lastFetch[symbol]
     /\ \A c \in CallIds :
          (/\ FetchStores(c)
           /\ calls[c].symbol \in DOMAIN written
           /\ written[calls[c].symbol].by = "getTicker")
          => calls[c].now >= written[calls[c].symbol].stamp]_vars

\* C33: a getTicker call whose fetch fails leaves the cache and the fetch
\* timestamp of every symbol as they are; a quote that was expired when it
\* was served is still expired afterwards, so that the next getTicker for
\* the symbol fetches again.
FailedFetchWritesNothing ==
  [][\A c \in CallIds :
       FetchFailsNow(c)
       => /\ cache' = cache
          /\ lastFetch' = lastFetch
          /\ ~CacheHit(calls[c].symbol, now)
             => ~CacheHit(calls[c].symbol, now)']_vars

\* a getTicker call served an expired quote after its fetch failed, and the
\* quote is expired still
FailedFetchWritesNothingWitness ==
  \E c \in CallIds :
    /\ calls[c].op = "getTicker"
    /\ calls[c].pc = "done"
    /\ calls[c].fetched = "failed"
    /\ calls[c].result.kind = "ticker"
    /\ calls[c].symbol \in DOMAIN cache
    /\ now - lastFetch[calls[c].symbol] >= CACHE_TTL_MS
    /\ ~CacheHit(calls[c].symbol, now)

\* C34: once initializeDatabase has returned, the unique index on
\* payment_requests.nonce is in force, whatever ran before it, and a
\* createPaymentRequest with a stored nonce is rejected: it returns null
\* and stores nothing.
UniqueNonceAfterInitialize ==
  [][/\ InitializeDatabase => "payment_requests.nonce" \in indexes'
     /\ \A c \in CallIds :
          (/\ collections = AllCollections
           /\ calls[c].op = "createPaymentRequest"
           /\ calls[c].pc = "insertOne"
           /\ calls'[c].pc = "done"
           /\ \E p \in payment_requests : p.nonce = calls[c].nonce)
          => /\ calls'[c].result = NullId
             /\ payment_requests' = payment_requests]_vars

(***************************************************************************)
(* Properties of the domain registry.                                      *)
(***************************************************************************)
\* no two domain documents carry the same name
OneDomainPerName ==
  \A d1 \in domains : \A d2 \in domains :
    d1.domain = d2.domain => d1 = d2

\* a createDomain call ends in this step at its check for an existing
\* domain, or earlier
RejectedAtCheck ==
  /\ reply' # reply
  /\ reply'.op = "createDomain"
  /\ calls' = calls

\* the createDomain call of slot c passes its check in this step
PassesCheck(c) ==
  /\ calls[c] = Idle
  /\ calls'[c] # Idle
  /\ calls'[c].op = "createDomain"

\* the createDomain call of slot c makes its insert in this step
InsertStep(c) ==
  /\ calls[c] # Idle
  /\ calls[c].op = "createDomain"
  /\ calls[c].pc = "insert"
  /\ calls'[c] # calls[c]

AlreadyExists ==
  /\ reply'.op = "createDomain"
  /\ reply'.result = Error("Domain already exists")
  /\ domains' = domains

\* C23 as stated: at most one domain exists per normalized name, and a
\* createDomain call for a name that already has a domain, whatever the
\* order or interleaving of the calls, fails with the 'already exists' error
\* and adds nothing.
CreateDomainRejectsDuplicate ==
  [][/\ OneDomainPerName'
     /\ (RejectedAtCheck /\ findByName(NormalizeCreated(reply'.name)) # {})
        => AlreadyExists
     /\ \A c \in CallIds :
          /\ PassesCheck(c) => findByName(calls'[c].name) = {}
          /\ (InsertStep(c) /\ findByName(calls[c].name) # {})
             => AlreadyExists]_vars

\* C23, amended: at most one domain exists per normalized name; a
\* createDomain call that finds a non-deleted domain of the name at its check
\* fails with the 'already exists' error, a call whose insert meets a
\* document of the name (inserted after the check by another call, or
\* deleted) fails with the duplicate-key error of the store; neither adds a
\* document.
CreateDomainRejectsDuplicateOrConflict ==
  [][/\ OneDomainPerName'
     /\ (RejectedAtCheck /\ findByName(NormalizeCreated(reply'.name)) # {})
        => AlreadyExists
     /\ \A c \in CallIds :
          /\ PassesCheck(c) => findByName(calls'[c].name) = {}
          /\ (InsertStep(c) /\ findByName_IncludeDeleted(calls[c].name) # {})
             => /\ reply'.op = "createDomain"
                /\ reply'.result = DuplicateKey
                /\ domains' = domains]_vars

\* of two overlapping createDomain calls for one name, the second ended with
\* the duplicate-key error while the domain of the first exists
CreateDomainRejectsDuplicateWitness ==
  /\ reply.op = "createDomain"
  /\ reply.result = DuplicateKey
  /\ findByName(NormalizeCreated(reply.name)) # {}
  /\ \E c \in CallIds :
       /\ calls[c] # Idle
       /\ calls[c].op = "createDomain"
       /\ calls[c].pc = "read"

\* C24: when createDomain succeeds for a name d and returns the domain it
\* created, getDomainByName(d) with the same input d returns that domain.
DomainNameRoundTrip ==
  [][(/\ reply' # reply
      /\ reply'.op = "createDomain"
      /\ reply'.result.kind = "ok"
      /\ reply'.result.value.kind = "ok")
     => {d \in domains' : /\ d.domain = NormalizeLookup(reply'.name)
                          /\ d.is_deleted # TRUE}
        = {reply'.result.value.value}]_vars

\* a deleteDomain call ends in this step without having deleted
DeleteRejected ==
  /\ reply' # reply
  /\ reply'.op = "deleteDomain"
  /\ calls' = calls

\* C26: once deleteDomain(id) has succeeded, getDomainById(id) returns null,
\* no user that belonged to the domain at that moment is returned by
\* getUserByUsernameAndDomain or getUsersByDomain, and a further
\* deleteDomain(id) throws 'Domain not found or already deleted' and changes
\* neither the domains nor the users.
DeletedDomainStaysDeleted ==
  [][/\ \A id \in DOMAIN belonged' :
          /\ findDomainById(id)' = {}
          /\ \A u \in users' :
               u._id \in belonged'[id]
               => /\ u \notin findByUsernameAndDomain(u.username, id)'
                  /\ u \notin findByDomain(id)'
     /\ \A c \in CallIds :
          (calls[c] = Idle /\ calls'[c] # Idle /\ calls'[c].op = "deleteDomain")
          => calls'[c].id \notin DOMAIN belonged
     /\ (DeleteRejected /\ reply'.id \in DOMAIN belonged)
        => /\ reply'.result = Error("Domain not found or already deleted")
           /\ domains' = domains
           /\ users' = users]_vars

\* a domain that had a user was deleted, and a second deleteDomain for it
\* was made
DeletedDomainStaysDeletedWitness ==
  /\ reply.op = "deleteDomain"
  /\ reply.result = Error("Domain not found or already deleted")
  /\ reply.id \in DOMAIN belonged
  /\ belonged[reply.id] # {}

\* updateDomain or updateCurrencySettings (with a currency code of the
\* list) is called for the domain id in this step: the call takes its first
\* step or is rejected at once
UpdateCalled(id) ==
  \/ \E c \in CallIds :
       /\ calls[c] = Idle
       /\ calls'[c] # Idle
       /\ calls'[c].op \in {"updateDomain", "updateCurrencySettings"}
       /\ calls'[c].id = id
  \/ /\ calls' = calls
     /\ reply' # reply
     /\ reply'.op \in {"updateDomain", "updateCurrencySettings"}
     /\ reply'.id = id
     /\ reply'.result # Error("Invalid currency code")

\* C37: once deleteDomain(id) has returned, an updateDomain or
\* updateCurrencySettings call for id changes no field of the stored domain
\* record and reports the domain as not found.
DeletedDomainFrozen ==
  [][\A id \in DOMAIN belonged :
       /\ UpdateCalled(id)
          => /\ {d \in domains' : d._id = id} = {d \in domains : d._id = id}
             /\ calls' = calls
             /\ reply'.result \in
                  {Error("Domain not found"),
                   Error("Domain not found or no changes made")}
       /\ \A c \in CallIds :
            (/\ calls[c] # Idle
             /\ calls[c].op = "updateDomain"
             /\ calls[c].id = id
             /\ calls'[c] = Idle)
            => reply'.result.kind = "error"]_vars

\* C38: when no call is in progress, the domain_id of every non-deleted user
\* is the id of a stored, non-deleted domain.
VisibleUsersHaveDomain ==
  (\A c \in CallIds : calls[c] = Idle)
  => \A u \in users :
       u.is_deleted # TRUE => findDomainById(u.domain_id) # {}

\* C31: when deleteDomain of services/domains.js returns, no chain_addresses
\* and no payment_requests record refers to a user the domain had when the
\* call was made.
HardDeleteRemovesRecords ==
  [][\A c \in CallIds :
       (/\ calls[c].op = "hardDeleteDomain"
        /\ calls[c].pc = "return"
        /\ calls'[c] = Idle)
       => /\ \A i \in 1..Len(chain_addresses') :
               chain_addresses'[i].user_id \notin calls[c].members
          /\ \A p \in payment_requests' :
               p.user_id \notin calls[c].members]_vars

\* 0 <= minSendable <= maxSendable, as numbers compare
LimitsOrdered(settings) ==
  /\ settings.minSendable # NaN
  /\ settings.maxSendable # NaN
  /\ 0 <= settings.minSendable
  /\ settings.minSendable <= settings.maxSendable

\* C27: every currency setting of every domain satisfies
\* 0 <= minSendable <= maxSendable after every step of createDomain and
\* updateCurrencySettings calls, and no update with an invalid currency
\* code, a negative limit or minSendable above maxSendable gets as far as
\* its write.
LimitsStayOrdered ==
  [][/\ \A d \in domains' : \A code \in VALID_DOMAIN_CURRENCIES :
          LimitsOrdered(d.currency_settings[code])
     /\ \A c \in CallIds :
          (/\ calls[c] = Idle
           /\ calls'[c] # Idle
           /\ calls'[c].op = "updateCurrencySettings")
          => /\ calls'[c].currencyCode \in VALID_DOMAIN_CURRENCIES
             /\ ~Less(calls'[c].settings.minSendable, 0)
             /\ ~Less(calls'[c].settings.maxSendable, 0)
             /\ ~Greater(calls'[c].settings.minSendable,
                         calls'[c].settings.maxSendable)
             /\ domains' = domains]_vars

(***************************************************************************)
(* Properties of the user registry.                                        *)
(***************************************************************************)
\* C25: whenever a non-deleted user whose stored username equals the
\* lowercased requested username exists in the domain, createUser throws the
\* 'already exists in this domain' error and stores no user, address or
\* audit record.
DuplicateUsernameRejected ==
  [][(/\ reply' # reply
      /\ reply'.op = "createUser"
      /\ \E u \in users : /\ u.username = ToLowerCase(reply'.name)
                          /\ u.domain_id = reply'.id
                          /\ u.is_deleted # TRUE)
     => /\ reply'.result = Error("User already exists in this domain")
        /\ users' = users
        /\ chain_addresses' = chain_addresses
        /\ audit_log' = audit_log]_vars

\* C35: a createUser call that throws, 'Invalid chain' included, has stored
\* no user record, no address record and no audit record.
FailedCreateUserStoresNothing ==
  [][(/\ reply' # reply
      /\ reply'.op = "createUser"
      /\ reply'.result.kind = "error")
     => /\ users' = users
        /\ chain_addresses' = chain_addresses
        /\ audit_log' = audit_log]_vars

\* C36: createUser with a valid username and valid chain keys succeeds
\* whenever no non-deleted user holds the username in the domain, also when
\* a previous holder was deleted.
UsernameReusable ==
  [][\A username \in {"alice", "Alice"},
        addresses \in {NoValue, <<<<"polygon", "0xA">>>>} :
       (/\ CreateUser(username, "d1", Null, addresses)
        /\ reply' # reply
        /\ isValidUsername(username)
        /\ ~\E u \in users : /\ u.username = ToLowerCase(username)
                             /\ u.domain_id = "d1"
                             /\ u.is_deleted # TRUE)
       => reply'.result.kind = "ok"]_vars

\* deleteUser(userId) has succeeded: its audit record is written
Deleted(userId) ==
  \E entry \in audit_log :
    entry.action = "user_deleted" /\ entry.target_id = userId

UserOps == {"deleteUser", "updateUser", "deactivateUser", "activateUser"}

\* C28: once deleteUser(u) has succeeded, getUserById, getUserByUsername and
\* getUserByUsernameAndDomain do not return u, no deleteUser, updateUser,
\* deactivateUser or activateUser call made on u afterwards gets past its
\* lookup, and each of them throws 'User not found' and changes neither the
\* users nor the addresses.
DeletedUserStaysDeleted ==
  [][\A userId \in 1..(MaxUsers + 1) :
       /\ Deleted(userId)'
          => /\ findById(userId)' = {}
             /\ \A u \in users' :
                  u._id = userId
                  => /\ u \notin findByUsername(u.username)'
                     /\ u \notin
                          findByUsernameAndDomain(u.username, u.domain_id)'
       /\ Deleted(userId)
          => /\ \A c \in CallIds :
                  (calls[c] = Idle /\ calls'[c] # Idle
                   /\ calls'[c].op \in UserOps)
                  => calls'[c].userId # userId
             /\ (/\ reply' # reply
                 /\ reply'.op \in UserOps
                 /\ reply'.userId = userId
                 /\ calls' = calls)
                => /\ reply'.result = UserNotFoundError
                   /\ users' = users
                   /\ chain_addresses' = chain_addresses]_vars

\* a user with an address was deleted, and updateUser was called on it
\* afterwards
DeletedUserStaysDeletedWitness ==
  /\ reply.op = "updateUser"
  /\ reply.result = UserNotFoundError
  /\ Deleted(reply.userId)
  /\ findAllAddresses(reply.userId) # <<>>

\* the user has an active address whose chain key the mapping does not have
HasUnknownChain(userId) ==
  \E a \in Range(findAddresses(userId)) :
    a.chain_name \notin DOMAIN chainMapping

\* C30: for a user with an active address under a chain key that is not in
\* the chain mapping, getFormattedAddresses and enrichUserWithAddresses do
\* not fail: they return the user's other chains and leave that key out.
UnknownChainOmitted ==
  [][(/\ reply' # reply
      /\ reply'.op \in {"getFormattedAddresses", "enrichUserWithAddresses"}
      /\ HasUnknownChain(reply'.userId))
     => /\ reply'.result.kind = "ok"
        /\ LET addresses ==
                 IF reply'.op = "getFormattedAddresses"
                   THEN reply'.result.value
                   ELSE reply'.result.value.addresses
           IN DOMAIN addresses =
                {a.chain_name : a \in Range(findAddresses(reply'.userId))}
                  \cap DOMAIN chainMapping]_vars

====
